---------------------------- MODULE Spec2Model ----------------------------
(***************************************************************************)
(* A model of the e9tool frontend driver (src/e9tool/e9tool.cpp): the      *)
(* match evaluator, the rule dispatcher, the plugin registry and the       *)
(* orchestrating main() with its disassembly passes and its reverse patch  *)
(* walk.  Every operator keeps the name of the function it models.         *)
(***************************************************************************)
EXTENDS Integers, Sequences, FiniteSets, TLC

(***************************************************************************)
(* Bounds of the model (not program constants).                            *)
(***************************************************************************)
\* instructions disassembled in a run of the "small" inputs
MaxInsns == 3
\* instructions disassembled in a run of the "long" inputs (window walk)
MaxLongInsns == 12
\* 9-byte instructions in the text of a "long" input (the others are 15
\* bytes long)
MaxShortInsns == 2
\* instructions disassembled in a run of the "eval" inputs
MaxEvalInsns == 2
\* instructions disassembled by each of the two runs compared side by side
MaxPairInsns == 2
\* the longest text of the "parse" inputs, in instructions
MaxParseInsns == 2
\* the longest text of the "many" inputs, in instructions
MaxManyInsns == 2
MaxOperandInsns == 1

(***************************************************************************)
(* Program constants.                                                      *)
(***************************************************************************)
INT8_MAX == 127
SHORT_JMP_SIZE == 2
MAX_INSN_SIZE == 15
MAX_ACTIONS == 1024

INT32_MIN == -2147483647 - 1

INT32_MAX == 2147483647

\* MATCH_TYPE_* (e9tool.cpp:163-170)
MATCH_TYPE_UNDEFINED == 0
MATCH_TYPE_NIL == 1
MATCH_TYPE_INTEGER == 2
MATCH_TYPE_OPERAND == 4
MATCH_TYPE_ACCESS == 8
MATCH_TYPE_REGISTER == 16
MATCH_TYPE_MEMORY == 32
MATCH_TYPE_STRING == 64

\* a null C string (const char *)nullptr, a null Record pointer, a null
\* MatchExpr pointer, a null plugin pointer
NULLSTR == "nullptr"
NULLREC == 0
NULLEXPR == [op |-> "NULL"]
NOERR == "none"

(***************************************************************************)
(* struct MatchValue and its total order.                                  *)
(***************************************************************************)
MatchValue(t, v) == [type |-> t, i |-> v]

IntValue(v) == MatchValue(MATCH_TYPE_INTEGER, v)

UndefinedValue == MatchValue(MATCH_TYPE_UNDEFINED, 0)

\* MatchValue::compare: this->compare(value), this = x
compare(x, value) ==
    IF value.type < x.type THEN 1
    ELSE IF value.type > x.type THEN -1
    ELSE IF x.type \in {MATCH_TYPE_INTEGER, MATCH_TYPE_OPERAND,
                        MATCH_TYPE_ACCESS, MATCH_TYPE_REGISTER}
         THEN (IF value.i < x.i THEN 1 ELSE IF value.i > x.i THEN -1 ELSE 0)
         ELSE 0

(***************************************************************************)
(* Index<MatchValue>: an ordered map from MatchValue to Record pointer,    *)
(* modelled as a function whose domain is the key set.                     *)
(***************************************************************************)
EmptyIndex == [v \in {} |-> NULLREC]

IndexSize(values) == Cardinality(DOMAIN values)

\* values->find(x): the key equal to x under compare, or none
IndexFind(values, x) == {k \in DOMAIN values : compare(x, k) = 0}

IndexHas(values, x) == IndexFind(values, x) # {}

IndexGet(values, x) == values[CHOOSE k \in IndexFind(values, x) : TRUE]

\* values->begin()->first and values->rbegin()->first
IndexBegin(values) ==
    CHOOSE k \in DOMAIN values : \A o \in DOMAIN values : compare(k, o) <= 0

IndexRBegin(values) ==
    CHOOSE k \in DOMAIN values : \A o \in DOMAIN values : compare(k, o) >= 0

(***************************************************************************)
(* rand()/srand() of the C library: a deterministic sequence fixed by the  *)
(* seed.  The state is kept modulo 65537 (the arithmetic of the checker is *)
(* 32 bits wide); the seed 0xE9E9E9E9 is 0xE9E9 * 2^16 + 0xE9E9.           *)
(***************************************************************************)
SEED_HALF == 59881

\* the state of the generator before any srand(): srand(1)
RandDefault == 1

\* Faulty variant of srand: the seed is not installed
srand_unseeded(hi, lo) == RandDefault

srand(hi, lo) == (((((hi % 65537) * 256) % 65537) * 256) + lo) % 65537

\* one call of rand(): the new state, which is also the value returned
rand(s) == (s * 75 + 74) % 65537

(***************************************************************************)
(* Instructions as the disassembler yields them.                           *)
(***************************************************************************)
Insn(addr, sz, mnem) == [address |-> addr, size |-> sz, mnemonic |-> mnem]

HasGroup(I, grp) ==
    \/ grp = "CS_GRP_CALL" /\ I.mnemonic = "call"
    \/ grp = "CS_GRP_JUMP" /\ I.mnemonic = "jmp"
    \/ grp = "CS_GRP_RET" /\ I.mnemonic = "ret"

BoolInt(b) == IF b THEN 1 ELSE 0

(***************************************************************************)
(* The operands of an instruction (I->detail->x86.operands), given by the  *)
(* mnemonic as the groups are.  access is the bit set of CS_AC_READ (1)    *)
(* and CS_AC_WRITE (2), which are the bits of ACCESS_READ and              *)
(* ACCESS_WRITE; registers are written by their Register value, 0 for      *)
(* none.                                                                   *)
(***************************************************************************)
ACCESS_READ == 1
ACCESS_WRITE == 2

NoMem == [segment |-> 0, base |-> 0, index |-> 0, scale |-> 1, disp |-> 0]

RegOp(reg, access, size) ==
    [type |-> "X86_OP_REG", access |-> access, size |-> size, imm |-> 0,
     reg |-> reg, mem |-> NoMem]

ImmOp(imm, size) ==
    [type |-> "X86_OP_IMM", access |-> 0, size |-> size, imm |-> imm,
     reg |-> 0, mem |-> NoMem]

MemOp(mem, access, size) ==
    [type |-> "X86_OP_MEM", access |-> access, size |-> size, imm |-> 0,
     reg |-> 0, mem |-> mem]

NULLOP == [type |-> "nullptr", access |-> 0, size |-> 0, imm |-> 0,
           reg |-> 0, mem |-> NoMem]

Operands(I) ==
    CASE I.mnemonic = "xor" -> << RegOp(1, 3, 4), RegOp(2, 1, 4) >>
      [] I.mnemonic = "add" ->
            << MemOp([NoMem EXCEPT !.base = 5, !.disp = 8], 3, 8),
               ImmOp(16, 8) >>
      [] I.mnemonic = "mov" ->
            << RegOp(1, 2, 8),
               MemOp([segment |-> 7, base |-> 5, index |-> 2, scale |-> 4,
                      disp |-> -8], 1, 8) >>
      [] I.mnemonic = "lea" ->
            << RegOp(3, 2, 8), MemOp([NoMem EXCEPT !.base = 5], 1, 8) >>
      [] I.mnemonic = "push" -> << ImmOp(1, 8) >>
      [] I.mnemonic = "prefetch" -> << MemOp([NoMem EXCEPT !.base = 1], 0, 1) >>
      [] OTHER -> << >>

\* a & b for sets of the two access bits
BitAnd(a, b) ==
    (a % 2) * (b % 2) + 2 * ((a \div 2) % 2) * ((b \div 2) % 2)

\* Faulty variant of getOperand: an immediate operand is selected by its
\* access bits alone
getOperand_access(I, idx, type, access) ==
    LET ops == SelectSeq(Operands(I),
                   LAMBDA op :
                      /\ (type = "X86_OP_INVALID" \/ op.type = type)
                      /\ BitAnd(op.access, access) # 0)
    IN  IF idx < Len(ops) THEN ops[idx + 1] ELSE NULLOP

\* getOperand: the operand number idx among those of the type and access
\* asked for, nullptr if there are not that many
getOperand(I, idx, type, access) ==
    LET ops == SelectSeq(Operands(I),
                   LAMBDA op :
                      /\ (type = "X86_OP_INVALID" \/ op.type = type)
                      /\ \/ BitAnd(op.access, access) # 0
                         \/ /\ op.type = "X86_OP_IMM"
                            /\ BitAnd(access, ACCESS_READ) # 0)
    IN  IF idx < Len(ops) THEN ops[idx + 1] ELSE NULLOP

getNumOperands(I, type, access) ==
    Cardinality({k \in 1..Len(Operands(I)) :
        /\ (type = "X86_OP_INVALID" \/ Operands(I)[k].type = type)
        /\ \/ BitAnd(Operands(I)[k].access, access) # 0
           \/ /\ Operands(I)[k].type = "X86_OP_IMM"
              /\ BitAnd(access, ACCESS_READ) # 0})

OperandKinds ==
    {"MATCH_OP", "MATCH_SRC", "MATCH_DST", "MATCH_IMM", "MATCH_REG",
     "MATCH_MEM"}

\* the first switch of makeMatchValue: the type and access asked for
OperandType(match) ==
    CASE match = "MATCH_IMM" -> "X86_OP_IMM"
      [] match = "MATCH_REG" -> "X86_OP_REG"
      [] match = "MATCH_MEM" -> "X86_OP_MEM"
      [] OTHER -> "X86_OP_INVALID"

OperandAccess(match) ==
    CASE match = "MATCH_SRC" -> ACCESS_READ
      [] match = "MATCH_DST" -> ACCESS_WRITE
      [] OTHER -> ACCESS_READ + ACCESS_WRITE

\* a register or nil
RegOrNil(reg) ==
    IF reg = 0 THEN MatchValue(MATCH_TYPE_NIL, 0)
    ELSE MatchValue(MATCH_TYPE_REGISTER, reg)

\* the switch on field for the operand op found (e9tool.cpp:1566-1649)
OperandValue(op, field, I) ==
    CASE op = NULLOP -> UndefinedValue
      [] field = "MATCH_FIELD_NONE" ->
            CASE op.type = "X86_OP_IMM" -> IntValue(op.imm)
              [] op.type = "X86_OP_REG" ->
                    MatchValue(MATCH_TYPE_REGISTER, op.reg)
              [] op.type = "X86_OP_MEM" -> MatchValue(MATCH_TYPE_MEMORY, 0)
              [] OTHER -> UndefinedValue
      [] field = "MATCH_FIELD_SIZE" -> IntValue(op.size)
      [] field = "MATCH_FIELD_TYPE" ->
            CASE op.type = "X86_OP_IMM" -> MatchValue(MATCH_TYPE_OPERAND, 1)
              [] op.type = "X86_OP_REG" -> MatchValue(MATCH_TYPE_OPERAND, 2)
              [] op.type = "X86_OP_MEM" -> MatchValue(MATCH_TYPE_OPERAND, 3)
              [] OTHER -> UndefinedValue
      [] field = "MATCH_FIELD_ACCESS" ->
            IF op.type = "X86_OP_IMM"
            THEN MatchValue(MATCH_TYPE_ACCESS, ACCESS_READ)
            ELSE IF op.type = "X86_OP_MEM" /\ I.mnemonic \in {"lea", "nop"}
            THEN MatchValue(MATCH_TYPE_ACCESS, 0)
            ELSE MatchValue(MATCH_TYPE_ACCESS, op.access)
      [] op.type # "X86_OP_MEM" -> UndefinedValue
      [] field = "MATCH_FIELD_SEG" -> RegOrNil(op.mem.segment)
      [] field = "MATCH_FIELD_DISPL" -> IntValue(op.mem.disp)
      [] field = "MATCH_FIELD_BASE" -> RegOrNil(op.mem.base)
      [] field = "MATCH_FIELD_INDEX" -> RegOrNil(op.mem.index)
      [] field = "MATCH_FIELD_SCALE" -> IntValue(op.mem.scale)
      [] OTHER -> UndefinedValue

(***************************************************************************)
(* makeMatchValue: the extractor.  rng is the state of rand() before the   *)
(* call; the result carries the state after it.                            *)
(***************************************************************************)
makeMatchValue(match, idx, field, I, offset, plugin_val, rng) ==
    CASE match = "MATCH_TRUE" -> [x |-> IntValue(1), rng |-> rng]
      [] match = "MATCH_FALSE" -> [x |-> IntValue(0), rng |-> rng]
      [] match = "MATCH_ADDRESS" -> [x |-> IntValue(I.address), rng |-> rng]
      [] match = "MATCH_CALL" ->
            [x |-> IntValue(BoolInt(HasGroup(I, "CS_GRP_CALL"))), rng |-> rng]
      [] match = "MATCH_JUMP" ->
            [x |-> IntValue(BoolInt(HasGroup(I, "CS_GRP_JUMP"))), rng |-> rng]
      [] match = "MATCH_OFFSET" -> [x |-> IntValue(offset), rng |-> rng]
      [] match = "MATCH_PLUGIN" -> [x |-> IntValue(plugin_val), rng |-> rng]
      [] match = "MATCH_RANDOM" -> [x |-> IntValue(rand(rng)), rng |-> rand(rng)]
      [] match = "MATCH_RETURN" ->
            [x |-> IntValue(BoolInt(HasGroup(I, "CS_GRP_RET"))), rng |-> rng]
      [] match = "MATCH_SIZE" -> [x |-> IntValue(I.size), rng |-> rng]
      [] match \in OperandKinds ->
            [x |-> IF idx < 0
                   THEN IF field = "MATCH_FIELD_SIZE"
                        THEN IntValue(getNumOperands(I, OperandType(match),
                                                     OperandAccess(match)))
                        ELSE UndefinedValue
                   ELSE OperandValue(getOperand(I, idx, OperandType(match),
                                                OperandAccess(match)),
                                     field, I),
             rng |-> rng]
      [] OTHER -> [x |-> UndefinedValue, rng |-> rng]


(***************************************************************************)
(* struct MatchTest and struct MatchExpr.  A test holds its value set as   *)
(* an Index and the basename of the CSV file the set was built from        *)
(* (NULLSTR when the values were written in the rule).                     *)
(***************************************************************************)
MatchTest(match, cmp, basename, plugin, values, regex) ==
    [match |-> match, idx |-> -1, field |-> "MATCH_FIELD_NONE", cmp |-> cmp,
     basename |-> basename, plugin |-> plugin, values |-> values,
     regex |-> regex]

TestExpr(test) == [op |-> "MATCH_OP_TEST", test |-> test]

NotExpr(arg) == [op |-> "MATCH_OP_NOT", arg1 |-> arg]

AndExpr(a, b) == [op |-> "MATCH_OP_AND", arg1 |-> a, arg2 |-> b]

OrExpr(a, b) == [op |-> "MATCH_OP_OR", arg1 |-> a, arg2 |-> b]

\* makeMatchString: the text a regex test is matched against
makeMatchString(match, I) ==
    IF match = "MATCH_MNEMONIC" THEN I.mnemonic ELSE ""

ValueKinds ==
    {"MATCH_TRUE", "MATCH_FALSE", "MATCH_ADDRESS", "MATCH_CALL", "MATCH_JUMP",
     "MATCH_OFFSET", "MATCH_OP", "MATCH_SRC", "MATCH_DST", "MATCH_IMM",
     "MATCH_REG", "MATCH_MEM", "MATCH_PLUGIN", "MATCH_RANDOM", "MATCH_RETURN",
     "MATCH_SIZE"}

\* the comparison of matchEval's inner switch (e9tool.cpp:1771-1804)
CmpPass(cmp, x, values) ==
    CASE cmp = "MATCH_CMP_DEFINED" -> TRUE
      [] cmp = "MATCH_CMP_EQ_ZERO" -> x.type = MATCH_TYPE_INTEGER /\ x.i = 0
      [] cmp = "MATCH_CMP_NEQ_ZERO" -> x.type = MATCH_TYPE_INTEGER /\ x.i # 0
      [] cmp = "MATCH_CMP_EQ" -> IndexHas(values, x)
      [] cmp = "MATCH_CMP_NEQ" ->
            IF IndexSize(values) = 1 THEN ~IndexHas(values, x) ELSE TRUE
      [] cmp = "MATCH_CMP_LT" -> compare(x, IndexRBegin(values)) < 0
      [] cmp = "MATCH_CMP_LEQ" -> compare(x, IndexRBegin(values)) <= 0
      [] cmp = "MATCH_CMP_GT" -> compare(x, IndexBegin(values)) > 0
      [] cmp = "MATCH_CMP_GEQ" -> compare(x, IndexBegin(values)) >= 0
      [] OTHER -> FALSE

(***************************************************************************)
(* The record binding of a passing `=' test (e9tool.cpp:1808-1820).        *)
(* st.record is *record.  strcmp(test->basename, basename) with a null     *)
(* test->basename is undefined behaviour: ub names its outcome, a crash    *)
(* ("segv") or a comparison that returns equal ("eq") or unequal ("ne").   *)
(***************************************************************************)
BindRecord(test, x, basename, ub, st) ==
    LET same == IF test.basename = NULLSTR THEN ub = "eq"
                ELSE test.basename = basename
        found == [rec |-> IndexGet(test.values, x), csv |-> test.basename]
    IN  IF test.basename = NULLSTR /\ ub = "segv"
        THEN [st EXCEPT !.err = "SIGSEGV"]
        ELSE IF same /\ IndexHas(test.values, x)
        THEN IF st.record # NULLREC /\ IndexGet(test.values, x) # st.record
             THEN [st EXCEPT !.err = "ambiguous", !.binds = Append(@, found)]
             ELSE [st EXCEPT !.record = IndexGet(test.values, x),
                             !.binds = Append(@, found)]
        ELSE st

\* Faulty variant of TestValue: an undefined value is compared as any other
TestValue_compared(test, basename, bind, env, st, mv) ==
    LET pass == CmpPass(test.cmp, mv.x, test.values)
    IN  [pass |-> pass,
         st |-> IF pass /\ basename # NULLSTR /\ bind
                        /\ test.cmp = "MATCH_CMP_EQ"
                THEN BindRecord(test, mv.x, basename, env.ub,
                                [st EXCEPT !.rng = mv.rng])
                ELSE [st EXCEPT !.rng = mv.rng]]

\* the comparison of the value mv.x that makeMatchValue gave, the override
\* for an undefined value and the binding (e9tool.cpp:1769-1820)
TestValue(test, basename, bind, env, st, mv) ==
    LET pass == IF mv.x.type = MATCH_TYPE_UNDEFINED THEN FALSE
                ELSE CmpPass(test.cmp, mv.x, test.values)
    IN  [pass |-> pass,
         st |-> IF pass /\ basename # NULLSTR /\ bind
                        /\ test.cmp = "MATCH_CMP_EQ"
                THEN BindRecord(test, mv.x, basename, env.ub,
                                [st EXCEPT !.rng = mv.rng])
                ELSE [st EXCEPT !.rng = mv.rng]]

\* the MATCH_OP_TEST part of matchEval (e9tool.cpp:1713-1828)
TestEval(test, I, offset, basename, bind, env, st) ==
    IF test.match \in {"MATCH_ASSEMBLY", "MATCH_MNEMONIC"}
    THEN IF test.cmp = "MATCH_CMP_DEFINED"
         THEN [pass |-> TRUE, st |-> st]
         ELSE LET m == (makeMatchString(test.match, I) = test.regex)
              IN  [pass |-> IF test.cmp = "MATCH_CMP_NEQ" THEN ~m ELSE m,
                   st |-> st]
    ELSE IF test.match \in ValueKinds
    THEN IF /\ test.cmp \notin {"MATCH_CMP_EQ_ZERO", "MATCH_CMP_NEQ_ZERO",
                                "MATCH_CMP_DEFINED"}
            /\ IndexSize(test.values) = 0
         THEN [pass |-> FALSE, st |-> st]
         ELSE TestValue(test, basename, bind, env, st,
                        makeMatchValue(test.match, test.idx, test.field, I,
                            offset,
                            IF test.match = "MATCH_PLUGIN"
                            THEN env.plugins[test.plugin].result ELSE 0,
                            st.rng))
    ELSE [pass |-> FALSE, st |-> st]

(***************************************************************************)
(* matchEval.  st = [rng, record, err, visits, binds]: the state of        *)
(* rand(), the bound record *record, the fatal error raised (error() ends  *)
(* the process, so nothing is evaluated after it) and, as observations,    *)
(* the list of the calls of matchEval that returned, each with the         *)
(* position of its node in the rule (path) and its result, and the list of *)
(* the records the binding code looked up.  bind is (record != nullptr).   *)
(***************************************************************************)
Visit(r, path) ==
    IF r.st.err # NOERR THEN r
    ELSE [pass |-> r.pass,
          st |-> [r.st EXCEPT
                    !.visits = Append(@, [node |-> path, pass |-> r.pass])]]

RECURSIVE matchEval(_, _, _, _, _, _, _, _)
\* Faulty variant of matchEval: both arguments of And and Or are
\* always evaluated
matchEval_eager(expr, I, offset, basename, bind, env, st, path) ==
    IF expr.op = "MATCH_OP_AND" \/ expr.op = "MATCH_OP_OR"
    THEN LET a == matchEval(expr.arg1, I, offset, basename, bind, env, st,
                            Append(path, 1))
             b == matchEval(expr.arg2, I, offset, basename, bind, env, a.st,
                            Append(path, 2))
         IN  Visit([pass |-> IF expr.op = "MATCH_OP_AND"
                             THEN a.pass /\ b.pass ELSE a.pass \/ b.pass,
                    st |-> b.st], path)
    ELSE IF expr.op = "MATCH_OP_NOT"
    THEN LET a == matchEval(expr.arg1, I, offset, NULLSTR, FALSE, env, st,
                            Append(path, 1))
         IN  Visit([pass |-> ~a.pass, st |-> a.st], path)
    ELSE IF expr.op = "MATCH_OP_TEST"
    THEN Visit(TestEval(expr.test, I, offset, basename, bind, env, st), path)
    ELSE [pass |-> TRUE, st |-> st]

matchEval(expr, I, offset, basename, bind, env, st, path) ==
    CASE expr = NULLEXPR -> [pass |-> TRUE, st |-> st]
      [] expr.op = "MATCH_OP_NOT" ->
            LET a == matchEval(expr.arg1, I, offset, NULLSTR, FALSE, env, st,
                               Append(path, 1))
            IN  IF a.st.err # NOERR THEN a
                ELSE Visit([pass |-> ~a.pass, st |-> a.st], path)
      [] expr.op = "MATCH_OP_AND" ->
            LET a == matchEval(expr.arg1, I, offset, basename, bind, env, st,
                               Append(path, 1))
            IN  IF a.st.err # NOERR THEN a
                ELSE IF ~a.pass
                THEN Visit([pass |-> FALSE, st |-> a.st], path)
                ELSE Visit(matchEval(expr.arg2, I, offset, basename, bind,
                                     env, a.st, Append(path, 2)), path)
      [] expr.op = "MATCH_OP_OR" ->
            LET a == matchEval(expr.arg1, I, offset, basename, bind, env, st,
                               Append(path, 1))
            IN  IF a.st.err # NOERR THEN a
                ELSE IF a.pass
                THEN Visit([pass |-> TRUE, st |-> a.st], path)
                ELSE Visit(matchEval(expr.arg2, I, offset, basename, bind,
                                     env, a.st, Append(path, 2)), path)
      [] expr.op = "MATCH_OP_TEST" ->
            Visit(TestEval(expr.test, I, offset, basename, bind, env, st),
                  path)
      [] OTHER -> [pass |-> FALSE, st |-> st]

\* matchAction: the evaluation of one rule, without record binding
matchAction(action, I, offset, env, st, idx) ==
    matchEval(action.match, I, offset, NULLSTR, FALSE, env, st, <<idx>>)

(***************************************************************************)
(* match: the rule dispatcher.  actions is the rule vector (rule idx of    *)
(* the program is actions[idx + 1]).                                       *)
(***************************************************************************)
\* the loop of match over the rules lo..hi - 1, in index order and stopping
\* at the first rule that passes; the range is split in two halves, the
\* second of which is entered only when no rule of the first passed, so
\* that a vector of MAX_ACTIONS rules needs no deep recursion
RECURSIVE matchFrom(_, _, _, _, _, _, _)
matchFrom(actions, I, offset, env, st, lo, hi) ==
    IF lo >= hi THEN [idx |-> -1, st |-> st]
    ELSE IF hi = lo + 1
    THEN LET r == matchAction(actions[lo + 1], I, offset, env, st, lo)
         IN  [idx |-> IF r.pass THEN lo ELSE -1, st |-> r.st]
    ELSE LET r == matchFrom(actions, I, offset, env, st, lo,
                            (lo + hi) \div 2)
         IN  IF r.idx >= 0 THEN r
             ELSE matchFrom(actions, I, offset, env, r.st,
                            (lo + hi) \div 2, hi)

RECURSIVE matchLast(_, _, _, _, _, _, _)
\* Faulty variant of match: the loop does not stop at the first rule
\* that passes, so the last passing rule wins
matchLast(actions, I, offset, env, st, lo, hi) ==
    IF lo >= hi THEN [idx |-> -1, st |-> st]
    ELSE IF hi = lo + 1
    THEN LET r == matchAction(actions[lo + 1], I, offset, env, st, lo)
         IN  [idx |-> IF r.pass THEN lo ELSE -1, st |-> r.st]
    ELSE LET r == matchLast(actions, I, offset, env, st, lo,
                            (lo + hi) \div 2)
             rest == matchLast(actions, I, offset, env, r.st,
                               (lo + hi) \div 2, hi)
         IN  IF rest.idx >= 0 THEN rest ELSE [idx |-> r.idx, st |-> rest.st]

match_last(actions, I, offset, env, st) ==
    matchLast(actions, I, offset, env, st, 0, Len(actions))

match(actions, I, offset, env, st) ==
    matchFrom(actions, I, offset, env, st, 0, Len(actions))

(***************************************************************************)
(* The backend stream and the plugin callbacks, in the order they happen.  *)
(* One entry per message written to backend.out and per call of a plugin   *)
(* entry point (plugins write to the same stream from their callbacks).    *)
(* site is the address of the patch site being processed when the entry    *)
(* was made (-1 outside the patch walk).                                   *)
(***************************************************************************)
Ev(kind, plugin, context, offset, addr, size, name, site) ==
    [kind |-> kind, plugin |-> plugin, context |-> context, offset |-> offset,
     addr |-> addr, size |-> size, name |-> name, site |-> site, id |-> -1,
     args |-> <<>>, clean |-> FALSE, call |-> ""]

Msg(kind, name) == Ev(kind, NULLSTR, NULLSTR, -1, -1, -1, name, -1)

PluginCall(kind, plugin, context, offset) ==
    Ev(kind, plugin, context, offset, -1, -1, "", -1)

(***************************************************************************)
(* The plugin files of the file system: realpath() of a plugin name with   *)
(* ".so" appended when absent, and the entry points dlsym() finds in each  *)
(* shared object.  CStrRank is the order CStrCmp (strcmp) gives the paths. *)
(***************************************************************************)
RealPath ==
    [b \in {"a", "a.so", "b", "c", "e", "m", "n", "./a"} |->
        CASE b \in {"a", "a.so", "./a"} -> "/p/a.so"
          [] b = "b" -> "/p/b.so"
          [] b = "c" -> "/p/c.so"
          [] b = "e" -> "/p/e.so"
          [] b = "m" -> "/p/m.so"
          [] b = "n" -> "/p/n.so"]

\* m.so exports the match entry point only, n.so no entry point at all
Dlsym ==
    [f \in {"/p/a.so", "/p/b.so", "/p/c.so", "/p/e.so", "/p/m.so",
            "/p/n.so"} |->
        CASE f = "/p/a.so" -> {"init", "match", "fini"}
          [] f = "/p/b.so" -> {"init", "instr", "match", "patch", "fini"}
          [] f = "/p/c.so" -> {"patch", "fini"}
          [] f = "/p/e.so" -> {"init", "patch"}
          [] f = "/p/m.so" -> {"match"}
          [] f = "/p/n.so" -> {}]

CStrRank ==
    [f \in DOMAIN Dlsym |->
        CASE f = "/p/a.so" -> 1 [] f = "/p/b.so" -> 2
          [] f = "/p/c.so" -> 3 [] f = "/p/e.so" -> 4
          [] f = "/p/m.so" -> 5 [] f = "/p/n.so" -> 6]

\* struct Plugin: funcs is the set of entry points that are not nullptr
Plugin(filename, funcs) ==
    [filename |-> filename, context |-> NULLSTR, result |-> 0, funcs |-> funcs]

\* one call of openPlugin, as the log `opened' keeps it: the name given,
\* the canonical path, whether dlopen/dlsym ran (FALSE for a path found in
\* the registry) and whether the call returned a plugin
OpenCall(basename, pathname, resolved, ok) ==
    [basename |-> basename, pathname |-> pathname, resolved |-> resolved,
     ok |-> ok]

\* Faulty variant of openPlugin: the registry is not consulted, so every
\* call resolves the entry points and replaces the record of the path
openPlugin_nocache(basename, reg) ==
    IF basename \notin DOMAIN RealPath
    THEN [reg |-> [reg EXCEPT !.err = "plugin path",
                              !.opened = Append(@, OpenCall(basename, NULLSTR,
                                                            FALSE, FALSE))],
          plugin |-> NULLSTR]
    ELSE IF Dlsym[RealPath[basename]]
               \cap {"init", "instr", "patch", "fini"} = {}
    THEN [reg |-> [reg EXCEPT
                     !.err = "plugin exports nothing",
                     !.opened = Append(@, OpenCall(basename,
                                                   RealPath[basename],
                                                   TRUE, FALSE))],
          plugin |-> NULLSTR]
    ELSE [reg |->
            [reg EXCEPT
               !.plugins = [f \in DOMAIN reg.plugins \cup {RealPath[basename]}
                              |-> IF f = RealPath[basename]
                                  THEN Plugin(f, Dlsym[f])
                                  ELSE reg.plugins[f]],
               !.option_notify = reg.option_notify
                                 \/ ("instr" \in Dlsym[RealPath[basename]]),
               !.opened = Append(@, OpenCall(basename, RealPath[basename],
                                             TRUE, TRUE))],
          plugin |-> RealPath[basename]]

(***************************************************************************)
(* openPlugin.  reg = [plugins, option_notify, err, opened]; the result    *)
(* carries the registry after the call and the plugin returned.            *)
(***************************************************************************)
openPlugin(basename, reg) ==
    IF basename \notin DOMAIN RealPath
    THEN [reg |-> [reg EXCEPT !.err = "plugin path",
                              !.opened = Append(@, OpenCall(basename, NULLSTR,
                                                            FALSE, FALSE))],
          plugin |-> NULLSTR]
    ELSE LET pathname == RealPath[basename]
             funcs == Dlsym[pathname]
         IN  IF pathname \in DOMAIN reg.plugins
             THEN [reg |-> [reg EXCEPT
                              !.opened = Append(@, OpenCall(basename, pathname,
                                                            FALSE, TRUE))],
                   plugin |-> pathname]
             ELSE IF funcs \cap {"init", "instr", "patch", "fini"} = {}
             THEN [reg |-> [reg EXCEPT
                              !.err = "plugin exports nothing",
                              !.opened = Append(@, OpenCall(basename, pathname,
                                                            TRUE, FALSE))],
                   plugin |-> NULLSTR]
             ELSE [reg |->
                     [reg EXCEPT
                        !.plugins = [f \in DOMAIN reg.plugins \cup {pathname}
                                       |-> IF f = pathname
                                           THEN Plugin(pathname, funcs)
                                           ELSE reg.plugins[f]],
                        !.option_notify = reg.option_notify
                                          \/ ("instr" \in funcs),
                        !.opened = Append(@, OpenCall(basename, pathname,
                                                      TRUE, TRUE))],
                   plugin |-> pathname]

(***************************************************************************)
(* The order in which `for (auto i: plugins)' visits the registry: the     *)
(* order of the keys of the std::map, i.e. of the canonical paths.         *)
(***************************************************************************)
RECURSIVE SortByRank(_)
SortByRank(S) ==
    IF S = {} THEN <<>>
    ELSE LET f == CHOOSE x \in S : \A y \in S : CStrRank[x] <= CStrRank[y]
         IN  <<f>> \o SortByRank(S \ {f})

RECURSIVE SortByRankDesc(_)
SortByRankDesc(S) ==
    IF S = {} THEN <<>>
    ELSE LET f == CHOOSE x \in S : \A y \in S : CStrRank[x] >= CStrRank[y]
         IN  <<f>> \o SortByRankDesc(S \ {f})

\* Faulty variant of PluginOrder: the registry is visited in the opposite
\* order
PluginOrder_reversed(plugins) == SortByRankDesc(DOMAIN plugins)

PluginOrder(plugins) == SortByRank(DOMAIN plugins)

\* the plugins, in visiting order, that export the entry point fn
WithFunc(plugins, fn) ==
    SelectSeq(PluginOrder(plugins), LAMBDA f : fn \in plugins[f].funcs)

CallsOf(plugins, fn, offset) ==
    [k \in 1..Len(WithFunc(plugins, fn)) |->
        PluginCall(fn, WithFunc(plugins, fn)[k],
                   plugins[WithFunc(plugins, fn)[k]].context, offset)]

\* Faulty variant of initPlugins: no init entry point is called
initPlugins_none(plugins) == [plugins |-> plugins, out |-> <<>>]

\* initPlugins: plugin->context = plugin->initFunc(out, elf); the context a
\* plugin returns is a token that names the plugin
initPlugins(plugins) ==
    [plugins |-> [f \in DOMAIN plugins |->
                    IF "init" \in plugins[f].funcs
                    THEN [plugins[f] EXCEPT !.context = f]
                    ELSE plugins[f]],
     out |-> [k \in 1..Len(WithFunc(plugins, "init")) |->
                PluginCall("init", WithFunc(plugins, "init")[k], NULLSTR, -1)]]

\* notifyPlugins
notifyPlugins(plugins, offset) == CallsOf(plugins, "instr", offset)

\* Faulty variant of matchPlugins: plugin->result |= plugin->matchFunc(...)
matchPlugins_sticky(plugins, offset, results) ==
    [plugins |-> [f \in DOMAIN plugins |->
                    IF "match" \in plugins[f].funcs /\ results[f] # 0
                    THEN [plugins[f] EXCEPT !.result = results[f]]
                    ELSE plugins[f]],
     out |-> CallsOf(plugins, "match", offset)]

\* matchPlugins: plugin->result = plugin->matchFunc(...); results gives the
\* value each plugin's match returns for this instruction
matchPlugins(plugins, offset, results) ==
    [plugins |-> [f \in DOMAIN plugins |->
                    IF "match" \in plugins[f].funcs
                    THEN [plugins[f] EXCEPT !.result = results[f]]
                    ELSE plugins[f]],
     out |-> CallsOf(plugins, "match", offset)]

\* Faulty variant of finiPlugins: only the plugins that have an init entry
\* point are finalized
finiPlugins_initonly(plugins) ==
    SelectSeq(CallsOf(plugins, "fini", -1),
              LAMBDA e : "init" \in plugins[e.plugin].funcs)

\* finiPlugins
finiPlugins(plugins) == CallsOf(plugins, "fini", -1)

\* the values the match entry points of the loaded plugins may return
MatchResults(plugins) ==
    {r \in [DOMAIN plugins -> {0, 1}] :
        \A f \in DOMAIN plugins : "match" \notin plugins[f].funcs => r[f] = 0}

(***************************************************************************)
(* The input ELF file: the .text section header, and the CSV files beside  *)
(* it.  A Record is a row of a CSV file; id stands for its address.        *)
(***************************************************************************)
ElfText == [sh_addr |-> 4198400, sh_offset |-> 4096]

CsvFiles ==
    [b \in {"sites", "other", "empty"} |->
        IF b = "sites"
        THEN << [id |-> 1, cols |-> <<ElfText.sh_addr, 1>>],
                [id |-> 2, cols |-> <<ElfText.sh_addr + 1, 1>>],
                [id |-> 3, cols |-> <<ElfText.sh_addr + 2, 2>>] >>
        ELSE IF b = "other"
        THEN << [id |-> 4, cols |-> <<0, 0>>],
                [id |-> 5, cols |-> <<1, 1>>] >>
        ELSE << >>]

\* parseCSV
parseCSV(basename) == CsvFiles[basename]

\* buildIntIndex: index.insert({value, &record}) for each record in file
\* order; an insert of a key already present changes nothing
buildIntIndex(data, col) ==
    LET keys == {IntValue(data[k].cols[col + 1]) : k \in 1..Len(data)}
        first(v) == CHOOSE k \in 1..Len(data) :
                        /\ IntValue(data[k].cols[col + 1]) = v
                        /\ \A j \in 1..(k - 1) :
                              IntValue(data[j].cols[col + 1]) # v
    IN  [v \in keys |-> data[first(v)].id]

\* the value set of a comma list of integers written in the rule
IntIndex(S) == [v \in {IntValue(n) : n \in S} |-> NULLREC]

(***************************************************************************)
(* The rules as given on the command line.  A match string is written as   *)
(* its syntax tree; a test names its attribute, its comparison and its     *)
(* values: a set of integers (ints), a CSV file and column (basename,      *)
(* column), a regular expression, or a plugin (by the name given).         *)
(***************************************************************************)
TestStr(attr, cmp, ints, basename, column, plugin, regex) ==
    [op |-> "MATCH_OP_TEST",
     test |-> [match |-> attr, cmp |-> cmp, ints |-> ints,
               basename |-> basename, column |-> column, plugin |-> plugin,
               regex |-> regex, idx |-> -1, field |-> "MATCH_FIELD_NONE"]]

AttrTest(attr, cmp, ints) == TestStr(attr, cmp, ints, NULLSTR, 0, NULLSTR, "")

CsvTest(attr, basename, column) ==
    TestStr(attr, "MATCH_CMP_EQ", {}, basename, column, NULLSTR, "")

MnemonicTest(regex) ==
    TestStr("MATCH_MNEMONIC", "MATCH_CMP_EQ", {}, NULLSTR, 0, NULLSTR, regex)

PluginTest(plugin) ==
    TestStr("MATCH_PLUGIN", "MATCH_CMP_NEQ_ZERO", {}, NULLSTR, 0, plugin, "")

\* attr[idx].field cmp ints; idx = -1 when no index is written
OperandTest(attr, idx, field, cmp, ints) ==
    [op |-> "MATCH_OP_TEST",
     test |-> [AttrTest(attr, cmp, ints).test EXCEPT !.idx = idx,
                                                     !.field = field]]

\* the type of the values of a test (e9tool.cpp:679-730); a written value
\* is an integer, or the value of its token when the field asks for one
ValueType(t) ==
    CASE t.field = "MATCH_FIELD_TYPE" -> MATCH_TYPE_OPERAND
      [] t.field = "MATCH_FIELD_ACCESS" -> MATCH_TYPE_ACCESS
      [] t.field \in {"MATCH_FIELD_SEG", "MATCH_FIELD_BASE",
                      "MATCH_FIELD_INDEX"} -> MATCH_TYPE_REGISTER
      [] OTHER -> MATCH_TYPE_INTEGER

\* the errors of parseTest for the index, the field and the values
TestError(t) ==
    IF /\ t.match \in OperandKinds
       /\ t.idx < 0
       /\ t.field # "MATCH_FIELD_SIZE"
    THEN "unexpected token"
    ELSE IF t.match \in OperandKinds /\ t.idx > 7
    THEN "expected index within the range"
    ELSE IF t.cmp \in {"MATCH_CMP_DEFINED", "MATCH_CMP_EQ_ZERO",
                       "MATCH_CMP_NEQ_ZERO"}
    THEN NOERR
    ELSE IF t.basename # NULLSTR
    THEN IF ValueType(t) # MATCH_TYPE_INTEGER THEN "unexpected token"
         ELSE NOERR
    ELSE IF t.ints = {} \/ (t.cmp # "MATCH_CMP_EQ" /\ Cardinality(t.ints) > 1)
    THEN "unexpected token"
    ELSE NOERR

\* new MatchTest(match, idx, field, cmp, plugin, nullptr) with its values
IndexedTest(t, reg, values) ==
    IF TestError(t) # NOERR
    THEN [test |-> NULLEXPR, reg |-> [reg EXCEPT !.err = TestError(t)]]
    ELSE [test |-> [MatchTest(t.match, t.cmp, t.basename, NULLSTR, values,
                              "") EXCEPT !.idx = t.idx, !.field = t.field],
          reg |-> reg]

\* parseTest (e9tool.cpp:573-824), from the attribute on
pluginTest(t, o) ==
    IF o.reg.err # NOERR THEN [test |-> NULLEXPR, reg |-> o.reg]
    ELSE IF "match" \notin o.reg.plugins[o.plugin].funcs
    THEN [test |-> NULLEXPR,
          reg |-> [o.reg EXCEPT !.err = "plugin lacks match"]]
    ELSE [test |-> MatchTest(t.match, t.cmp, NULLSTR, o.plugin, EmptyIndex,
                             ""),
          reg |-> o.reg]

parseTest(t, reg) ==
    IF t.match = "MATCH_PLUGIN"
    THEN pluginTest(t, openPlugin(t.plugin, reg))
    ELSE IF t.match \in {"MATCH_ASSEMBLY", "MATCH_MNEMONIC"}
    THEN [test |-> MatchTest(t.match, t.cmp, NULLSTR, NULLSTR, EmptyIndex,
                             t.regex),
          reg |-> reg]
    ELSE IF t.cmp \in {"MATCH_CMP_DEFINED", "MATCH_CMP_EQ_ZERO",
                       "MATCH_CMP_NEQ_ZERO"}
    THEN IndexedTest([t EXCEPT !.basename = NULLSTR], reg, EmptyIndex)
    ELSE IF t.basename # NULLSTR
    THEN IndexedTest(t, reg, buildIntIndex(parseCSV(t.basename), t.column))
    ELSE IF ValueType(t) = MATCH_TYPE_INTEGER
    THEN IndexedTest(t, reg, IntIndex(t.ints))
    ELSE IndexedTest(t, reg,
                     [v \in {MatchValue(ValueType(t), n) : n \in t.ints}
                        |-> NULLREC])

(***************************************************************************)
(* A match string is the sequence of its tokens; a test counts as one      *)
(* token that carries its parts (parseTest reads them).  The parser state  *)
(* is [expr, pos, reg]: the tree built, the position of the next token and *)
(* the plugin registry.                                                    *)
(***************************************************************************)
Tok(t) == [tok |-> t]

TestTok(e) == [tok |-> "TOKEN_TEST", test |-> e.test]

peekToken(toks, pos) == IF pos > Len(toks) THEN "TOKEN_END" ELSE toks[pos].tok

Parsed(expr, pos, reg) == [expr |-> expr, pos |-> pos, reg |-> reg]

unexpectedToken(pos, reg) ==
    Parsed(NULLEXPR, pos, [reg EXCEPT !.err = "unexpected token"])

\* parser.expectToken(tok) after the expression e was parsed
expectToken(toks, e, tok) ==
    IF e.reg.err # NOERR THEN e
    ELSE IF peekToken(toks, e.pos) = tok THEN Parsed(e.expr, e.pos + 1, e.reg)
    ELSE unexpectedToken(e.pos, e.reg)

\* new MatchExpr(MATCH_OP_NOT, expr)
Negated(e) ==
    IF e.reg.err # NOERR THEN e ELSE Parsed(NotExpr(e.expr), e.pos, e.reg)

\* new MatchExpr(op, expr, arg)
Joined(op, p, arg) ==
    Parsed([op |-> op, arg1 |-> p.expr, arg2 |-> arg.expr], arg.pos, arg.reg)

\* new MatchExpr(MATCH_OP_TEST, test), for the test t that parseTest
\* returned for the token at pos
Tested(t, pos) ==
    IF t.reg.err # NOERR THEN Parsed(NULLEXPR, pos, t.reg)
    ELSE Parsed(TestExpr(t.test), pos + 1, t.reg)

RECURSIVE parseMatchExpr(_, _, _, _)
RECURSIVE parseTestExpr(_, _, _)
RECURSIVE parseMatchLoop(_, _)

\* parseTestExpr: a parenthesised expression, a negation or a test
parseTestExpr(toks, pos, reg) ==
    IF reg.err # NOERR THEN Parsed(NULLEXPR, pos, reg)
    ELSE IF peekToken(toks, pos) = "("
    THEN expectToken(toks, parseMatchExpr(toks, pos + 1, reg, "MATCH_OP_OR"),
                     ")")
    ELSE IF peekToken(toks, pos) \in {"!", "TOKEN_NOT"}
    THEN Negated(parseMatchExpr(toks, pos + 1, reg, "MATCH_OP_OR"))
    ELSE IF peekToken(toks, pos) = "TOKEN_TEST"
    THEN Tested(parseTest(toks[pos].test, reg), pos)
    ELSE unexpectedToken(pos, reg)

\* the while loop of parseMatchExpr, entered with the expression p.expr
parseMatchLoop(toks, p) ==
    IF p.reg.err # NOERR THEN p
    ELSE IF peekToken(toks, p.pos) = "TOKEN_AND"
    THEN parseMatchLoop(toks,
                        Joined("MATCH_OP_AND", p,
                               parseTestExpr(toks, p.pos + 1, p.reg)))
    ELSE IF peekToken(toks, p.pos) = "TOKEN_OR"
    THEN parseMatchLoop(toks,
                        Joined("MATCH_OP_OR", p,
                               parseMatchExpr(toks, p.pos + 1, p.reg,
                                              "MATCH_OP_AND")))
    ELSE p

parseMatchExpr(toks, pos, reg, op) ==
    parseMatchLoop(toks,
                   IF op = "MATCH_OP_AND" THEN parseTestExpr(toks, pos, reg)
                   ELSE parseMatchExpr(toks, pos, reg, "MATCH_OP_AND"))

\* parser.expectToken(TOKEN_END) and the result of parseMatch
Ended(toks, e) ==
    IF e.reg.err # NOERR THEN [expr |-> NULLEXPR, reg |-> e.reg]
    ELSE IF peekToken(toks, e.pos) # "TOKEN_END"
    THEN [expr |-> NULLEXPR,
          reg |-> [e.reg EXCEPT !.err = "unexpected token"]]
    ELSE [expr |-> e.expr, reg |-> e.reg]

\* parseMatch: the tree of one match string; the plugins its tests name are
\* opened in the order the tests are written
parseMatch(toks, reg) ==
    Ended(toks, parseMatchExpr(toks, 1, reg, "MATCH_OP_OR"))

\* match = (match == nullptr? expr: new MatchExpr(MATCH_OP_AND, match, expr))
Conjoined(acc, e) ==
    [expr |-> IF acc = NULLEXPR THEN e.expr ELSE AndExpr(acc, e.expr),
     reg |-> e.reg]

\* the loop over entry.match of main (e9tool.cpp:2321-2327): the match
\* strings of one rule are conjoined from left to right; r = [expr, reg]
RECURSIVE parseMatches(_, _, _)
parseMatches(strs, k, r) ==
    IF k > Len(strs) \/ r.reg.err # NOERR THEN r
    ELSE parseMatches(strs, k + 1,
                      Conjoined(r.expr, parseMatch(strs[k], r.reg)))

(***************************************************************************)
(* struct Action and parseAction.  An action string is written as the      *)
(* record of its parts; user is the list of the CSV files its call         *)
(* arguments name ("file"[i]).                                             *)
(***************************************************************************)
ActionStr(kind, status, plugin, symbol, filename, user) ==
    [kind |-> kind, status |-> status, plugin |-> plugin, symbol |-> symbol,
     filename |-> filename, user |-> user, attrs |-> {}, args |-> <<>>]

PassthruAction == ActionStr("ACTION_PASSTHRU", 0, NULLSTR, NULLSTR, NULLSTR, <<>>)

TrapAction == ActionStr("ACTION_TRAP", 0, NULLSTR, NULLSTR, NULLSTR, <<>>)

PrintAction == ActionStr("ACTION_PRINT", 0, NULLSTR, NULLSTR, NULLSTR, <<>>)

ExitAction(status) == ActionStr("ACTION_EXIT", status, NULLSTR, NULLSTR, NULLSTR, <<>>)

PluginAction(plugin) ==
    ActionStr("ACTION_PLUGIN", 0, plugin, NULLSTR, plugin, <<>>)

CallAction(symbol, filename, user) ==
    ActionStr("ACTION_CALL", 0, NULLSTR, symbol, filename, user)

\* call[attrs] symbol(args)@filename
CallActionWith(symbol, filename, attrs, args) ==
    LET us == SelectSeq(args, LAMBDA a : a.token = "TOKEN_STRING"
                                         /\ a.indexed)
    IN  [CallAction(symbol, filename, [k \in 1..Len(us) |-> us[k].name])
            EXCEPT !.attrs = attrs, !.args = args]

(***************************************************************************)
(* The arguments of a call action.  An argument is written as its first    *)
(* token, whether `&' precedes it, the field that follows an operand       *)
(* ("FIELD_NONE" when none does), the register a register token names, the *)
(* name a string token gives and whether `[' follows the string.           *)
(***************************************************************************)
\* what the tokens between `<' and `>' of a memory-operand literal give
\* (e9tool.cpp:916-987): seg:disp64(base,index,scale64), each part with the
\* value it has when it is not written
MemLit(seg, disp64, base, index, scale64) ==
    [seg |-> seg, disp64 |-> disp64, base |-> base, index |-> index,
     scale64 |-> scale64]

NoMemLit == MemLit("REGISTER_NONE", 0, "REGISTER_NONE", "REGISTER_NONE", 1)

Arg(token, ptr, field, value, name, indexed) ==
    [token |-> token, ptr |-> ptr, field |-> field, value |-> value,
     name |-> name, indexed |-> indexed, memop |-> NoMemLit]

\* a memory-operand literal as argument
MemOpArg(token, ptr, lit) ==
    [Arg(token, ptr, "FIELD_NONE", "", NULLSTR, FALSE) EXCEPT !.memop = lit]

SegRegisters ==
    {"REGISTER_NONE", "REGISTER_ES", "REGISTER_CS", "REGISTER_SS",
     "REGISTER_DS", "REGISTER_FS", "REGISTER_GS"}

\* the registers of the model that the switch on memop.index accepts, and
\* those that the switch on memop.base accepts
IndexRegisters ==
    {"REGISTER_NONE", "REGISTER_RAX", "REGISTER_RCX", "REGISTER_EAX"}

BaseRegisters ==
    IndexRegisters \cup {"REGISTER_RSP", "REGISTER_ESP", "REGISTER_RIP"}

\* the checks after memop_validate (e9tool.cpp:989-1059), made on the
\* literal and on the MemOp as it is at that point
MemOpError(lit, memop) ==
    IF lit.disp64 < INT32_MIN \/ lit.disp64 > INT32_MAX
    THEN "displacement range"
    ELSE IF memop.seg \notin SegRegisters THEN "segment register"
    ELSE IF memop.base \notin BaseRegisters THEN "base register"
    ELSE IF memop.index \notin IndexRegisters THEN "index register"
    ELSE IF lit.scale64 \notin {1, 2, 4, 8} THEN "scale"
    ELSE IF /\ memop.base = "REGISTER_RIP"
            /\ memop.index # "REGISTER_NONE"
            /\ memop.scale # 1
    THEN "rip with index/scale"
    ELSE NOERR

\* the MemOp when the checks are made: seg, base and index are those
\* written, disp and scale still have their initial values (918-922)
MemOpRead(t, lit) ==
    [size |-> 1, seg |-> lit.seg, disp |-> 0, base |-> lit.base,
     index |-> lit.index, scale |-> 1]

\* memop.disp = (int32_t)disp64; memop.scale = (uint8_t)scale64
MemOpDone(lit, memop, e) ==
    [err |-> e,
     memop |-> IF e # NOERR THEN memop
               ELSE [memop EXCEPT !.disp = lit.disp64,
                                  !.scale = lit.scale64 % 256]]

\* parseMemOp for the literal lit that follows the token t
parseMemOp(t, lit) ==
    MemOpDone(lit, MemOpRead(t, lit), MemOpError(lit, MemOpRead(t, lit)))

\* the switch over the first token of an argument (e9tool.cpp:1185-1262)
ArgumentKind(a) ==
    CASE a.token = "TOKEN_ASM" -> "ARGUMENT_ASM"
      [] a.token = "TOKEN_ADDR" -> "ARGUMENT_ADDR"
      [] a.token = "TOKEN_BASE" -> "ARGUMENT_BASE"
      [] a.token = "TOKEN_DST" -> "ARGUMENT_DST"
      [] a.token = "TOKEN_ID" -> "ARGUMENT_ID"
      [] a.token = "TOKEN_IMM" -> "ARGUMENT_IMM"
      [] a.token = "TOKEN_INSTR" -> "ARGUMENT_BYTES"
      [] a.token = "TOKEN_MEM" -> "ARGUMENT_MEM"
      [] a.token \in {"TOKEN_MEM8", "TOKEN_MEM16", "TOKEN_MEM32",
                      "TOKEN_MEM64"} -> "ARGUMENT_MEMOP"
      [] a.token = "TOKEN_NEXT" -> "ARGUMENT_NEXT"
      [] a.token = "TOKEN_OFFSET" -> "ARGUMENT_OFFSET"
      [] a.token = "TOKEN_OP" -> "ARGUMENT_OP"
      [] a.token = "TOKEN_RANDOM" -> "ARGUMENT_RANDOM"
      [] a.token = "TOKEN_REG" -> "ARGUMENT_REG"
      [] a.token \in {"TOKEN_SIZE", "TOKEN_LENGTH"} -> "ARGUMENT_BYTES_SIZE"
      [] a.token = "TOKEN_STATE" -> "ARGUMENT_STATE"
      [] a.token = "TOKEN_STATIC_ADDR" -> "ARGUMENT_STATIC_ADDR"
      [] a.token = "TOKEN_SRC" -> "ARGUMENT_SRC"
      [] a.token = "TOKEN_TARGET" -> "ARGUMENT_TARGET"
      [] a.token = "TOKEN_TRAMPOLINE" -> "ARGUMENT_TRAMPOLINE"
      [] a.token = "TOKEN_REGISTER" -> "ARGUMENT_REGISTER"
      [] a.token = "TOKEN_INTEGER" -> "ARGUMENT_INTEGER"
      [] a.token = "TOKEN_STRING" ->
            IF a.indexed THEN "ARGUMENT_USER" ELSE "ARGUMENT_SYMBOL"
      [] OTHER -> "ARGUMENT_INVALID"

\* Faulty variant of parseArg: `&' is refused for every argument other than
\* a symbol and the base and index fields of an operand
parseArg_strict(a) ==
    LET arg == ArgumentKind(a)
        not_a_ptr == IF a.ptr THEN "cannot pass argument by pointer"
                     ELSE NOERR
    IN  IF arg = "ARGUMENT_INVALID" THEN "unexpected token"
        ELSE IF arg \in {"ARGUMENT_OP", "ARGUMENT_SRC", "ARGUMENT_DST",
                         "ARGUMENT_IMM", "ARGUMENT_REG", "ARGUMENT_MEM"}
        THEN IF a.ptr /\ a.field \notin {"FIELD_BASE", "FIELD_INDEX"}
             THEN "cannot pass field by pointer"
             ELSE NOERR
        ELSE IF a.field # "FIELD_NONE" THEN "unexpected token"
        ELSE IF /\ arg = "ARGUMENT_MEMOP"
                /\ parseMemOp(a.token, a.memop).err # NOERR
        THEN parseMemOp(a.token, a.memop).err
        ELSE IF arg = "ARGUMENT_SYMBOL"
        THEN IF ~a.ptr THEN "symbol must be passed-by-pointer" ELSE NOERR
        ELSE not_a_ptr

\* the checks made on one argument (e9tool.cpp:1263-1327): the error it
\* raises, NOERR when it is accepted
parseArg(a) ==
    LET arg == ArgumentKind(a)
        not_a_ptr == IF a.ptr THEN "cannot pass argument by pointer"
                     ELSE NOERR
    IN  IF arg = "ARGUMENT_INVALID" THEN "unexpected token"
        ELSE IF arg \in {"ARGUMENT_OP", "ARGUMENT_SRC", "ARGUMENT_DST",
                         "ARGUMENT_IMM", "ARGUMENT_REG", "ARGUMENT_MEM"}
        THEN IF /\ a.field # "FIELD_NONE"
                /\ a.ptr
                /\ a.field \notin {"FIELD_BASE", "FIELD_INDEX"}
             THEN "cannot pass field by pointer"
             ELSE NOERR
        ELSE IF a.field # "FIELD_NONE" THEN "unexpected token"
        ELSE IF arg = "ARGUMENT_MEMOP"
        THEN parseMemOp(a.token, a.memop).err
        ELSE IF arg = "ARGUMENT_SYMBOL"
        THEN IF ~a.ptr THEN "symbol must be passed-by-pointer" ELSE NOERR
        ELSE IF arg = "ARGUMENT_REGISTER"
        THEN IF a.value = "REGISTER_RIP" THEN not_a_ptr ELSE NOERR
        ELSE not_a_ptr

\* the loop over the arguments: they are parsed from left to right, and the
\* first error ends the process
RECURSIVE parseArgs(_, _)
parseArgs(args, k) ==
    IF k > Len(args) \/ parseArg(args[k]) # NOERR
    THEN IF k > Len(args) THEN NOERR ELSE parseArg(args[k])
    ELSE parseArgs(args, k + 1)

\* the kind of call the attributes in [...] select (e9tool.cpp:1358-1361)
CallKind(attrs) ==
    IF "after" \in attrs THEN "CALL_AFTER"
    ELSE IF "replace" \in attrs THEN "CALL_REPLACE"
    ELSE IF "conditional" \in attrs THEN "CALL_CONDITIONAL"
    ELSE IF "jump" \in attrs THEN "CALL_CONDITIONAL_JUMP"
    ELSE "CALL_BEFORE"

ActionName(a) ==
    CASE a.kind = "ACTION_PRINT" -> "print"
      [] a.kind = "ACTION_PASSTHRU" -> "passthru"
      [] a.kind = "ACTION_TRAP" -> "trap"
      [] a.kind = "ACTION_CALL" ->
            "call_"
            \o (IF "naked" \in a.attrs THEN "naked_" ELSE "clean_")
            \o (CASE CallKind(a.attrs) = "CALL_BEFORE" -> "before_"
                  [] CallKind(a.attrs) = "CALL_AFTER" -> "after_"
                  [] CallKind(a.attrs) = "CALL_REPLACE" -> "replace_"
                  [] CallKind(a.attrs) = "CALL_CONDITIONAL" -> "conditional_"
                  [] CallKind(a.attrs) = "CALL_CONDITIONAL_JUMP" -> "jump_")
            \o a.symbol \o "_" \o a.filename
      [] a.kind = "ACTION_EXIT" -> "exit_" \o ToString(a.status)
      [] a.kind = "ACTION_PLUGIN" -> "plugin_" \o a.filename

\* the error parseAction raises for the parts of an action string, NOERR
\* when it accepts them
AttrError(attrs, e) ==
    IF e # NOERR THEN e
    ELSE IF {"clean", "naked"} \subseteq attrs THEN "clean and naked"
    ELSE IF Cardinality(attrs \cap {"before", "after", "replace",
                                    "conditional", "jump"}) > 1
    THEN "more than one call kind"
    ELSE NOERR

ActionError(a) ==
    IF a.kind = "ACTION_EXIT"
    THEN IF a.status < 0 \/ a.status > 255 THEN "exit status" ELSE NOERR
    ELSE IF a.kind = "ACTION_CALL"
    THEN AttrError(a.attrs, parseArgs(a.args, 1))
    ELSE NOERR

\* new Action(...), for the plugin o that openPlugin returned and the error
\* e found in the parts of the string
Built(a, expr, o, e) ==
    IF o.reg.err = NOERR /\ e # NOERR
    THEN [action |-> NULLEXPR, reg |-> [o.reg EXCEPT !.err = e]]
    ELSE [action |-> [match |-> expr, kind |-> a.kind,
                      name |-> ActionName(a),
                      filename |-> a.filename, symbol |-> a.symbol,
                      plugin |-> o.plugin, context |-> NULLSTR,
                      user |-> a.user, status |-> a.status,
                      args |-> a.args,
                      clean |-> "naked" \notin a.attrs,
                      call |-> CallKind(a.attrs)],
          reg |-> o.reg]

\* parseAction; m = [expr, reg] is what the match strings were parsed to
parseAction(a, m) ==
    Built(a, m.expr,
          IF a.kind = "ACTION_PLUGIN" THEN openPlugin(a.plugin, m.reg)
          ELSE [reg |-> m.reg, plugin |-> NULLSTR],
          ActionError(a))

(***************************************************************************)
(* struct Location: the bit-fields size:4, emitted:1, patch:1, action:10   *)
(* keep the low bits of what is stored (offset:48 holds every offset of    *)
(* the model unchanged).                                                   *)
(***************************************************************************)
\* Faulty variant of Location: the action field is one bit narrower
Location_narrow(offset, size, patch, action) ==
    [offset |-> offset, size |-> size % 16, emitted |-> 0,
     patch |-> BoolInt(patch), action |-> action % (MAX_ACTIONS \div 2)]

Location(offset, size, patch, action) ==
    [offset |-> offset, size |-> size % 16, emitted |-> 0,
     patch |-> BoolInt(patch), action |-> action % MAX_ACTIONS]

Abs(n) == IF n < 0 THEN -n ELSE n

\* Faulty variant of InWindow: the bound is excluded
InWindow_strict(loc_addr, addr) ==
    ~(Abs(loc_addr - addr) >= INT8_MAX + SHORT_JMP_SIZE + MAX_INSN_SIZE)

\* Faulty variant of InWindow: no window at all
InWindow_unbounded(loc_addr, addr) == TRUE

\* the window test of sendInstructionMessage (e9tool.cpp:1900-1902)
InWindow(loc_addr, addr) ==
    ~(Abs(loc_addr - addr) > INT8_MAX + SHORT_JMP_SIZE + MAX_INSN_SIZE)

\* Faulty variant of sendInstructionMessage: the emitted flag is not
\* consulted
sendInstructionMessage_resend(loc, addr, text_addr, text_offset) ==
    IF ~InWindow(text_addr + loc.offset, addr)
    THEN [ret |-> FALSE, loc |-> loc, out |-> <<>>]
    ELSE [ret |-> TRUE, loc |-> [loc EXCEPT !.emitted = 1],
          out |-> << Ev("Instruction", NULLSTR, NULLSTR,
                        text_offset + loc.offset, text_addr + loc.offset,
                        loc.size, "", addr) >>]

\* sendInstructionMessage(out, loc, addr, text_addr, text_offset)
sendInstructionMessage(loc, addr, text_addr, text_offset) ==
    IF ~InWindow(text_addr + loc.offset, addr)
    THEN [ret |-> FALSE, loc |-> loc, out |-> <<>>]
    ELSE IF loc.emitted = 1
    THEN [ret |-> TRUE, loc |-> loc, out |-> <<>>]
    ELSE [ret |-> TRUE, loc |-> [loc EXCEPT !.emitted = 1],
          out |-> << Ev("Instruction", NULLSTR, NULLSTR,
                        text_offset + loc.offset, text_addr + loc.offset,
                        loc.size, "", addr) >>]

\* Faulty variant of WalkDown: the loop from the site downwards is not run
WalkDown_none(ls, j, addr, acc) == [locs |-> ls, out |-> acc]

\* for (j = i; !done && j >= 0; j--) done = !sendInstructionMessage(...)
\* (j counts from 1 here: locs[j] is locs[j - 1] of the program)
RECURSIVE WalkDown(_, _, _, _)
WalkDown(ls, j, addr, acc) ==
    IF j < 1 THEN [locs |-> ls, out |-> acc]
    ELSE LET r == sendInstructionMessage(ls[j], addr, ElfText.sh_addr,
                                         ElfText.sh_offset)
         IN  IF ~r.ret THEN [locs |-> ls, out |-> acc]
             ELSE WalkDown([ls EXCEPT ![j] = r.loc], j - 1, addr,
                           acc \o r.out)

\* for (j = i + 1; !done && j < count; j++) done = !sendInstructionMessage(...)
RECURSIVE WalkUp(_, _, _, _)
WalkUp(ls, j, addr, acc) ==
    IF j > Len(ls) THEN [locs |-> ls, out |-> acc]
    ELSE LET r == sendInstructionMessage(ls[j], addr, ElfText.sh_addr,
                                         ElfText.sh_offset)
         IN  IF ~r.ret THEN [locs |-> ls, out |-> acc]
             ELSE WalkUp([ls EXCEPT ![j] = r.loc], j + 1, addr, acc \o r.out)

(***************************************************************************)
(* buildMetadata (e9metadata.cpp, not part of the sources at hand): for    *)
(* each call argument that names a CSV file it evaluates the rule again    *)
(* with record binding for that file.  The result is the evaluation state  *)
(* after the last lookup.                                                  *)
(***************************************************************************)
EvalState(rng) ==
    [rng |-> rng, record |-> NULLREC, err |-> NOERR, visits |-> <<>>,
     binds |-> <<>>]

RECURSIVE lookupValues(_, _, _, _, _, _, _)
lookupValues(action, I, offset, env, r, k, idx) ==
    IF k > Len(action.user) \/ r.st.err # NOERR THEN r
    ELSE lookupValues(action, I, offset, env,
                      matchEval(action.match, I, offset, action.user[k], TRUE,
                                env, EvalState(r.st.rng), <<idx>>),
                      k + 1, idx)

buildMetadata(action, I, offset, env, rng, idx) ==
    lookupValues(action, I, offset, env,
                 [pass |-> FALSE, st |-> EvalState(rng)], 1, idx)

(***************************************************************************)
(* One iteration of the first disassembly loop (e9tool.cpp:2564-2594) on   *)
(* the instruction I the disassembler yields next.  run is the part of the *)
(* state the loop works on; results are the values the plugins' match      *)
(* entry points return for I.                                              *)
(***************************************************************************)
\* unsigned sync = option_sync: -1 becomes UINT_MAX, more than any text
\* holds instructions (written as the largest number of the checker)
UnsignedSync(option_sync) ==
    IF option_sync < 0 THEN 2147483647 + (1 + option_sync) ELSE option_sync

NoDispatch == [valid |-> FALSE, I |-> Insn(0, 0, ""), offset |-> 0,
               idx |-> -1, visits |-> <<>>, rng |-> 0]

\* Faulty variant of DisasmIter: a `.byte' item met while items are skipped
\* starts the count again
DisasmIter_resync(run, I, results, acts, notify, option_sync) ==
    IF I.mnemonic = ".byte"
    THEN [run |-> [run EXCEPT !.failed = TRUE,
                              !.sync = UnsignedSync(option_sync),
                              !.address = @ + I.size],
          out |-> <<>>, dispatch |-> NoDispatch]
    ELSE IF run.sync > 0
    THEN [run |-> [run EXCEPT !.sync = @ - 1, !.address = @ + I.size],
          out |-> <<>>, dispatch |-> NoDispatch]
    ELSE LET offset == I.address - ElfText.sh_addr
         IN  IF notify
             THEN [run |-> [run EXCEPT
                              !.locs = Append(@, Location(offset, I.size,
                                                          FALSE, -1)),
                              !.address = @ + I.size],
                   out |-> notifyPlugins(run.plugins, offset),
                   dispatch |-> NoDispatch]
             ELSE LET mp == matchPlugins(run.plugins, offset, results)
                      m == match(acts, I, offset,
                                 [plugins |-> mp.plugins, ub |-> "ne"],
                                 EvalState(run.rng))
                  IN  [run |-> [run EXCEPT
                                  !.locs = Append(@, Location(offset, I.size,
                                                      m.idx >= 0, m.idx)),
                                  !.rng = m.st.rng,
                                  !.plugins = mp.plugins,
                                  !.address = @ + I.size],
                       out |-> mp.out,
                       dispatch |-> [valid |-> TRUE, I |-> I,
                                     offset |-> offset, idx |-> m.idx,
                                     visits |-> m.st.visits,
                                     rng |-> run.rng]]

DisasmIter(run, I, results, acts, notify, option_sync) ==
    IF run.sync > 0
    THEN [run |-> [run EXCEPT !.sync = @ - 1, !.address = @ + I.size],
          out |-> <<>>, dispatch |-> NoDispatch]
    ELSE IF I.mnemonic = ".byte"
    THEN [run |-> [run EXCEPT !.failed = TRUE,
                              !.sync = UnsignedSync(option_sync),
                              !.address = @ + I.size],
          out |-> <<>>, dispatch |-> NoDispatch]
    ELSE LET offset == I.address - ElfText.sh_addr
         IN  IF notify
             THEN [run |-> [run EXCEPT
                              !.locs = Append(@, Location(offset, I.size,
                                                          FALSE, -1)),
                              !.address = @ + I.size],
                   out |-> notifyPlugins(run.plugins, offset),
                   dispatch |-> NoDispatch]
             ELSE LET mp == matchPlugins(run.plugins, offset, results)
                      m == match(acts, I, offset,
                                 [plugins |-> mp.plugins, ub |-> "ne"],
                                 EvalState(run.rng))
                  IN  [run |-> [run EXCEPT
                                  !.locs = Append(@, Location(offset, I.size,
                                                      m.idx >= 0, m.idx)),
                                  !.rng = m.st.rng,
                                  !.plugins = mp.plugins,
                                  !.address = @ + I.size],
                       out |-> mp.out,
                       dispatch |-> [valid |-> TRUE, I |-> I,
                                     offset |-> offset, idx |-> m.idx,
                                     visits |-> m.st.visits,
                                     rng |-> run.rng]]

(***************************************************************************)
(* The trampoline definitions sent before disassembly                      *)
(* (e9tool.cpp:2446-2511): one message per distinct exit status, per       *)
(* called ELF file and per distinct call trampoline, in rule order, then   *)
(* passthru, print and trap when some rule uses them.                      *)
(***************************************************************************)
\* have_exit.find(status) != have_exit.end() at rule k: an earlier exit rule
\* inserted the status
have_exit(acts, k) ==
    \E j \in 1..(k - 1) : /\ acts[j].kind = "ACTION_EXIT"
                          /\ acts[j].status = acts[k].status

\* files.find(filename) != files.end() at rule k: an earlier call rule
\* inserted the file name
have_file(acts, k) ==
    \E j \in 1..(k - 1) : /\ acts[j].kind = "ACTION_CALL"
                          /\ acts[j].filename = acts[k].filename

\* have_call.find(name) != have_call.end() at rule k: an earlier call rule
\* inserted the action name
have_call(acts, k) ==
    \E j \in 1..(k - 1) : /\ acts[j].kind = "ACTION_CALL"
                          /\ acts[j].name = acts[k].name

\* sendCallTrampolineMessage(out, action->name, action->args,
\* action->clean, action->call)
sendCallTrampolineMessage(a) ==
    [Msg("CallTrampoline", a.name) EXCEPT !.args = a.args,
                                          !.clean = a.clean,
                                          !.call = a.call]

\* Faulty variant of TrampStep: have_exit and have_call are not consulted
TrampStep_resend(acts, k) ==
    IF acts[k].kind = "ACTION_EXIT"
    THEN <<Msg("ExitTrampoline", ToString(acts[k].status))>>
    ELSE IF acts[k].kind = "ACTION_CALL"
    THEN (IF have_file(acts, k) THEN <<>>
          ELSE <<Msg("ELFFile", acts[k].filename)>>)
         \o <<sendCallTrampolineMessage(acts[k])>>
    ELSE <<>>

\* the messages of the iteration for rule k
TrampStep(acts, k) ==
    IF acts[k].kind = "ACTION_EXIT"
    THEN IF have_exit(acts, k) THEN <<>>
         ELSE <<Msg("ExitTrampoline", ToString(acts[k].status))>>
    ELSE IF acts[k].kind = "ACTION_CALL"
    THEN (IF have_file(acts, k) THEN <<>>
          ELSE <<Msg("ELFFile", acts[k].filename)>>)
         \o (IF have_call(acts, k) THEN <<>>
             ELSE <<sendCallTrampolineMessage(acts[k])>>)
    ELSE <<>>

\* the messages of the iterations for the rules lo..hi, in rule order (the
\* range is halved so that MAX_ACTIONS rules need no deep recursion)
RECURSIVE TrampLoop(_, _, _)
TrampLoop(acts, lo, hi) ==
    IF lo > hi THEN <<>>
    ELSE IF lo = hi THEN TrampStep(acts, lo)
    ELSE TrampLoop(acts, lo, (lo + hi) \div 2)
         \o TrampLoop(acts, (lo + hi) \div 2 + 1, hi)

HaveKind(acts, kind) == \E k \in 1..Len(acts) : acts[k].kind = kind

Trampolines(acts) ==
    TrampLoop(acts, 1, Len(acts))
    \o (IF HaveKind(acts, "ACTION_PASSTHRU")
        THEN << Msg("PassthruTrampoline", "passthru") >> ELSE <<>>)
    \o (IF HaveKind(acts, "ACTION_PRINT")
        THEN << Msg("PrintTrampoline", "print") >> ELSE <<>>)
    \o (IF HaveKind(acts, "ACTION_TRAP")
        THEN << Msg("TrapTrampoline", "trap") >> ELSE <<>>)

(***************************************************************************)
(* The command lines and the texts the model runs the program on.  Four    *)
(* families of inputs: "small" (plugins, desynchronisation, failures),     *)
(* "long" (texts long enough for the patch window to end inside them),     *)
(* "eval" (many rule shapes, CSV lookups) and "pair" (two runs with the    *)
(* same rules).                                                            *)
(***************************************************************************)
Entry(m, a) == [match |-> m, action |-> a]

SizeIs(n) == AttrTest("MATCH_SIZE", "MATCH_CMP_EQ", {n})

RandomBelow(n) == AttrTest("MATCH_RANDOM", "MATCH_CMP_LT", {n})

TrueTest == AttrTest("MATCH_TRUE", "MATCH_CMP_NEQ_ZERO", {})

FalseTest == AttrTest("MATCH_FALSE", "MATCH_CMP_NEQ_ZERO", {})

\* rand() gives 74 and then 5624 from the seed: the first draw passes
\* `random < 1000', the second does not
RandomTest == RandomBelow(1000)

SmallRules ==
    { << Entry(<<MnemonicTest("ret")>>, PassthruAction) >>,
      << Entry(<<PluginTest("a")>>, PluginAction("b")),
         Entry(<<SizeIs(2)>>, TrapAction) >>,
      << Entry(<<PluginTest("b")>>, PluginAction("c")),
         Entry(<<PluginTest("a.so"), RandomTest>>, PluginAction("e")) >>,
      << Entry(<<PluginTest("a")>>, PluginAction("a")) >>,
      << Entry(<<PluginTest("a")>>, PluginAction("c")),
         Entry(<<SizeIs(1)>>, PluginAction("e")) >>,
      << Entry(<<MnemonicTest("ret")>>, ExitAction(1)),
         Entry(<<RandomTest>>, TrapAction),
         Entry(<<TrueTest>>, PrintAction) >>,
      << Entry(<<SizeIs(1)>>, TrapAction), Entry(<<>>, PrintAction) >>,
      << Entry(<<PluginTest("c")>>, TrapAction) >>,
      << Entry(<<PluginTest("zz")>>, TrapAction) >> }

LongRules ==
    { << Entry(<<SizeIs(9)>>, PassthruAction) >>,
      << Entry(<<SizeIs(9), PluginTest("b")>>, PluginAction("b")) >> }

EvalLeaves ==
    { CsvTest("MATCH_ADDRESS", "sites", 0), CsvTest("MATCH_SIZE", "sites", 1),
      CsvTest("MATCH_SIZE", "other", 1), SizeIs(1), RandomTest,
      MnemonicTest("ret"), TrueTest }

EvalCore ==
    { CsvTest("MATCH_ADDRESS", "sites", 0), CsvTest("MATCH_SIZE", "sites", 1),
      SizeIs(1) }

EvalShapes ==
    EvalLeaves
    \cup {NotExpr(a) : a \in EvalLeaves}
    \cup {AndExpr(a, b) : a \in EvalLeaves, b \in EvalLeaves}
    \cup {OrExpr(a, b) : a \in EvalLeaves, b \in EvalLeaves}
    \cup {AndExpr(OrExpr(a, b), c) : a \in EvalCore, b \in EvalCore,
                                      c \in EvalCore}
    \cup {OrExpr(AndExpr(a, b), c) : a \in EvalCore, b \in EvalCore,
                                      c \in EvalCore}
    \cup {AndExpr(a, NotExpr(b)) : a \in EvalCore, b \in EvalCore}
    \cup {AndExpr(NotExpr(a), b) : a \in EvalCore, b \in EvalCore}
    \cup {OrExpr(NotExpr(a), b) : a \in EvalCore, b \in EvalCore}

PrioLeaves == {MnemonicTest("ret"), SizeIs(1), RandomTest, TrueTest, FalseTest}

\* tests with each comparison on value sets of no, one and two elements
CmpLeaves ==
    { AttrTest("MATCH_SIZE", cmp, ints) :
        cmp \in {"MATCH_CMP_EQ", "MATCH_CMP_NEQ", "MATCH_CMP_LT",
                 "MATCH_CMP_GEQ"},
        ints \in {{1}, {2}, {3}} }
    \cup { AttrTest("MATCH_SIZE", "MATCH_CMP_EQ", {2, 3}) }
    \cup { TestStr("MATCH_SIZE", cmp, {}, f, 1, NULLSTR, "") :
             cmp \in {"MATCH_CMP_EQ", "MATCH_CMP_NEQ", "MATCH_CMP_LT",
                      "MATCH_CMP_GEQ"},
             f \in {"sites", "empty"} }

EvalRules ==
    {<< Entry(<<e>>, CallAction("f", "bin", <<"sites">>)) >> :
        e \in EvalShapes}
    \cup {<< Entry(<<a, b>>, CallAction("f", "bin", <<"sites">>)) >> :
            a \in EvalLeaves, b \in EvalLeaves}
    \cup {<< Entry(<<a, b, c>>, CallAction("f", "bin", <<"other">>)) >> :
            a \in EvalCore, b \in {CsvTest("MATCH_SIZE", "other", 1)},
            c \in EvalCore}
    \cup {<< Entry(<<a>>, TrapAction), Entry(<<b>>, PrintAction),
             Entry(<<c>>, ExitAction(0)) >> :
            a \in PrioLeaves, b \in PrioLeaves, c \in PrioLeaves}
    \cup {<< Entry(<<PluginTest("b")>>, CallAction("f", "bin", <<"sites">>)),
             Entry(<<CsvTest("MATCH_OFFSET", "other", 0)>>,
                   CallAction("g", "bin", <<"other">>)) >>}
    \cup {<< Entry(<<t>>, TrapAction) >> : t \in CmpLeaves}

\* tests on the operands: defined(K[i]) and defined(K[i].field), K.size,
\* each comparison on an operand and on a field of it, and defined() on
\* other attributes
Comparisons ==
    {"MATCH_CMP_DEFINED", "MATCH_CMP_EQ_ZERO", "MATCH_CMP_NEQ_ZERO",
     "MATCH_CMP_EQ", "MATCH_CMP_NEQ", "MATCH_CMP_LT", "MATCH_CMP_LEQ",
     "MATCH_CMP_GT", "MATCH_CMP_GEQ"}

OperandLeaves ==
    { OperandTest(K, n, "MATCH_FIELD_NONE", "MATCH_CMP_DEFINED", {}) :
        K \in {"MATCH_SRC", "MATCH_DST", "MATCH_MEM"}, n \in {0, 1} }
    \cup { OperandTest("MATCH_IMM", n, f, "MATCH_CMP_DEFINED", {}) :
             n \in {0, 7},
             f \in {"MATCH_FIELD_TYPE", "MATCH_FIELD_ACCESS",
                    "MATCH_FIELD_SIZE"} }
    \cup { OperandTest(K, -1, "MATCH_FIELD_SIZE", "MATCH_CMP_EQ", {2}) :
             K \in {"MATCH_OP", "MATCH_REG"} }
    \cup { OperandTest("MATCH_OP", 1, f, cmp,
                       IF cmp \in {"MATCH_CMP_DEFINED", "MATCH_CMP_EQ_ZERO",
                                   "MATCH_CMP_NEQ_ZERO"} THEN {} ELSE {1}) :
             f \in {"MATCH_FIELD_NONE", "MATCH_FIELD_DISPL"},
             cmp \in Comparisons }
    \cup { AttrTest(K, "MATCH_CMP_DEFINED", {}) :
             K \in {"MATCH_SIZE", "MATCH_OFFSET", "MATCH_CALL"} }
    \cup { TestStr("MATCH_MNEMONIC", "MATCH_CMP_DEFINED", {}, NULLSTR, 0,
                   NULLSTR, ""),
           OperandTest("MATCH_OP", -1, "MATCH_FIELD_TYPE", "MATCH_CMP_DEFINED",
                       {}),
           OperandTest("MATCH_OP", 8, "MATCH_FIELD_NONE", "MATCH_CMP_DEFINED",
                       {}) }

OperandRules ==
    {<< Entry(<<t>>, TrapAction) >> : t \in OperandLeaves}
    \cup {<< Entry(<<OperandTest("MATCH_OP", 0, "MATCH_FIELD_NONE",
                                 "MATCH_CMP_DEFINED", {})>>,
                   PluginAction("b")) >>}

PairRules ==
    { << Entry(<<MnemonicTest("ret")>>, ExitAction(0)),
         Entry(<<RandomTest>>, TrapAction) >>,
      << Entry(<<PluginTest("a")>>, TrapAction),
         Entry(<<MnemonicTest("ret")>>, PrintAction) >>,
      << Entry(<<MnemonicTest("ret")>>, PassthruAction),
         Entry(<<MnemonicTest("nop")>>, TrapAction) >>,
      << Entry(<<PluginTest("b")>>, PluginAction("b")) >> }

\* the match string that writes a syntax tree with every operator in
\* parentheses
RECURSIVE WriteMatch(_)
WriteMatch(e) ==
    IF e.op = "MATCH_OP_TEST" THEN << TestTok(e) >>
    ELSE IF e.op = "MATCH_OP_NOT"
    THEN << Tok("("), Tok("TOKEN_NOT") >> \o WriteMatch(e.arg1)
         \o << Tok(")") >>
    ELSE << Tok("(") >> \o WriteMatch(e.arg1)
         \o << Tok(IF e.op = "MATCH_OP_AND" THEN "TOKEN_AND" ELSE "TOKEN_OR") >>
         \o WriteMatch(e.arg2) \o << Tok(")") >>

\* the -M and -A options of a command line, in the order given
Opt(opt, optarg) == [opt |-> opt, optarg |-> optarg]

MatchOpts(strs) == [k \in 1..Len(strs) |-> Opt("M", WriteMatch(strs[k]))]

\* the command line that gives a list of rules: the -M options of each rule
\* and then its -A option
RECURSIVE CommandLine(_)
CommandLine(entries) ==
    IF entries = <<>> THEN <<>>
    ELSE MatchOpts(entries[1].match) \o << Opt("A", entries[1].action) >>
         \o CommandLine(Tail(entries))

Lines(rules) == {CommandLine(r) : r \in rules}

(***************************************************************************)
(* The "parse" inputs are command lines written option by option, with     *)
(* match strings given token by token.                                     *)
(***************************************************************************)
\* the options of one rule: a -M option per match string, then -A
Rule(strs, a) ==
    [k \in 1..Len(strs) |-> Opt("M", strs[k])] \o << Opt("A", a) >>

T(e) == << TestTok(e) >>

AND == << Tok("TOKEN_AND") >>

OR == << Tok("TOKEN_OR") >>

NOT == << Tok("TOKEN_NOT") >>

LP == << Tok("(") >>

RP == << Tok(")") >>

OffsetIs(n) == AttrTest("MATCH_OFFSET", "MATCH_CMP_EQ", {n})

\* lines about the plugins: a plugin with the match entry point only, one
\* with none, one plugin named by several rules under different names, a
\* plugin asked for an entry point it lacks
PluginLines ==
    { Rule(<<T(PluginTest("m"))>>, TrapAction),
      Rule(<<T(PluginTest("n"))>>, TrapAction),
      Rule(<<T(TrueTest)>>, PluginAction("n")),
      Rule(<<T(TrueTest)>>, PluginAction("m")),
      Rule(<<T(TrueTest)>>, PluginAction("c")),
      Rule(<<T(TrueTest)>>, PluginAction("e")),
      Rule(<<T(PluginTest("c"))>>, TrapAction),
      Rule(<<T(PluginTest("e"))>>, PluginAction("c")),
      Rule(<<T(PluginTest("a"))>>, PluginAction("a")),
      Rule(<<T(PluginTest("zz"))>>, TrapAction),
      Rule(<<T(SizeIs(1))>>, PluginAction("a"))
         \o Rule(<<T(TrueTest)>>, PrintAction),
      Rule(<<T(PluginTest("a")) \o AND \o T(PluginTest("a.so"))>>,
           PluginAction("c"))
         \o Rule(<<T(PluginTest("./a"))>>, PluginAction("e"))
         \o Rule(<<T(SizeIs(2))>>, PluginAction("c")),
      Rule(<<T(PluginTest("b"))>>, PluginAction("b"))
         \o Rule(<<T(PluginTest("a.so")), T(PluginTest("b"))>>,
                 PluginAction("./a"))
         \o Rule(<<T(SizeIs(2)) \o AND \o T(PluginTest("a"))>>, TrapAction),
      Rule(<<T(SizeIs(1))>>, PluginAction("b"))
         \o Rule(<<T(TrueTest)>>, ExitAction(2)) }

\* lines about the pairing of -M with -A: several -M for one -A, an -A
\* without -M (first, or after a complete rule), -M left over at the end
OptionLines ==
    { << >>,
      << Opt("A", TrapAction) >>,
      << Opt("M", T(SizeIs(1))) >>,
      Rule(<<T(SizeIs(1))>>, TrapAction) \o << Opt("A", PrintAction) >>,
      Rule(<<T(SizeIs(1))>>, TrapAction) \o << Opt("M", T(SizeIs(2))) >>,
      Rule(<<T(SizeIs(1)), T(MnemonicTest("ret"))>>, TrapAction)
         \o Rule(<<T(SizeIs(2))>>, PrintAction),
      Rule(<<T(SizeIs(1))>>, TrapAction)
         \o Rule(<<T(TrueTest), T(SizeIs(2)), T(MnemonicTest("xor"))>>,
                 PassthruAction)
         \o Rule(<<T(TrueTest)>>, ExitAction(0)),
      << Opt("A", TrapAction), Opt("M", T(SizeIs(1))) >>,
      Rule(<<T(PluginTest("zz"))>>, TrapAction)
         \o << Opt("A", PrintAction) >> }

\* lines about the trampolines: exit statuses, call names and called files
\* that repeat, two different calls whose names coincide
TrampolineLines ==
    { Rule(<<T(MnemonicTest("ret"))>>, ExitAction(7))
         \o Rule(<<T(SizeIs(2))>>, ExitAction(7))
         \o Rule(<<T(TrueTest)>>, ExitAction(3)),
      Rule(<<T(MnemonicTest("ret"))>>, CallActionWith("f", "bin", {}, <<>>))
         \o Rule(<<T(SizeIs(2))>>, CallActionWith("f", "bin", {}, <<>>))
         \o Rule(<<T(TrueTest)>>, CallActionWith("g", "bin", {}, <<>>)),
      Rule(<<T(MnemonicTest("ret"))>>, CallActionWith("f", "bin", {}, <<>>))
         \o Rule(<<T(SizeIs(2))>>,
                 CallActionWith("f", "bin", {"after", "naked"}, <<>>))
         \o Rule(<<T(TrueTest)>>, CallActionWith("f", "lib", {}, <<>>)),
      Rule(<<T(MnemonicTest("ret"))>>, CallActionWith("f_g", "h", {}, <<>>))
         \o Rule(<<T(TrueTest)>>, CallActionWith("f", "g_h", {}, <<>>)),
      Rule(<<T(MnemonicTest("ret"))>>, PassthruAction)
         \o Rule(<<T(SizeIs(2))>>, PassthruAction),
      Rule(<<T(MnemonicTest("ret"))>>,
           CallActionWith("f", "bin", {},
                          << Arg("TOKEN_REGISTER", FALSE, "FIELD_NONE",
                                 "REGISTER_RAX", NULLSTR, FALSE) >>))
         \o Rule(<<T(TrueTest)>>,
                 CallActionWith("f", "bin", {},
                                << Arg("TOKEN_ADDR", FALSE, "FIELD_NONE", "",
                                       NULLSTR, FALSE),
                                   Arg("TOKEN_REGISTER", FALSE, "FIELD_NONE",
                                       "REGISTER_RAX", NULLSTR, FALSE) >>)),
      Rule(<<T(MnemonicTest("ret"))>>, PrintAction)
         \o Rule(<<T(SizeIs(2))>>, TrapAction)
         \o Rule(<<T(TrueTest)>>, PrintAction),
      Rule(<<T(MnemonicTest("ret"))>>, ExitAction(1))
         \o Rule(<<T(SizeIs(2))>>, PluginAction("b"))
         \o Rule(<<T(TrueTest)>>, CallActionWith("f", "bin", {"replace"},
                                                 <<>>)),
      Rule(<<T(TrueTest)>>, ExitAction(256)),
      Rule(<<T(TrueTest)>>, CallActionWith("f", "bin", {"clean", "naked"},
                                           <<>>)),
      Rule(<<T(TrueTest)>>, CallActionWith("f", "bin", {"before", "after"},
                                           <<>>)) }

\* the arguments tried in a call action, each with and without `&'
ArgTokens ==
    { Arg("TOKEN_OP", FALSE, f, "", NULLSTR, FALSE) :
        f \in {"FIELD_NONE", "FIELD_BASE", "FIELD_INDEX", "FIELD_DISPL",
               "FIELD_SCALE", "FIELD_SIZE", "FIELD_TYPE", "FIELD_ACCESS"} }
    \cup { Arg(t, FALSE, "FIELD_NONE", "", NULLSTR, FALSE) :
             t \in {"TOKEN_MEM64", "TOKEN_INTEGER", "TOKEN_ADDR",
                    "TOKEN_ASM", "TOKEN_SRC", "TOKEN_MEM", "TOKEN_STATE"} }
    \cup { Arg("TOKEN_REGISTER", FALSE, "FIELD_NONE", r, NULLSTR, FALSE) :
             r \in {"REGISTER_RAX", "REGISTER_RIP"} }
    \cup { Arg("TOKEN_STRING", FALSE, "FIELD_NONE", "", "sym", FALSE),
           Arg("TOKEN_STRING", FALSE, "FIELD_NONE", "", "sites", TRUE),
           Arg("TOKEN_ADDR", FALSE, "FIELD_BASE", "", NULLSTR, FALSE) }

ByPointer(a) == [a EXCEPT !.ptr = TRUE]

ArgLines ==
    { Rule(<<T(SizeIs(1))>>, CallActionWith("f", "bin", {}, <<a>>)) :
        a \in ArgTokens \cup {ByPointer(b) : b \in ArgTokens} }
    \cup { Rule(<<T(SizeIs(1))>>,
                CallActionWith("f", "bin", {},
                               << Arg("TOKEN_ADDR", FALSE, "FIELD_NONE", "",
                                      NULLSTR, FALSE), a >>)) :
             a \in {ByPointer(b) : b \in ArgTokens} }

\* the memory-operand literals tried in a call action
MemLits ==
    { MemLit(seg, 16, base, index, scale64) :
        seg \in {"REGISTER_NONE", "REGISTER_RAX"},
        base \in {"REGISTER_NONE", "REGISTER_RAX", "REGISTER_RIP",
                  "REGISTER_RSP", "REGISTER_AL"},
        index \in {"REGISTER_NONE", "REGISTER_RCX", "REGISTER_RSP"},
        scale64 \in {1, 2, 3} }

MemOpLines ==
    { Rule(<<T(SizeIs(1))>>,
           CallActionWith("f", "bin", {},
                          <<MemOpArg("TOKEN_MEM64", FALSE, lit)>>)) :
        lit \in MemLits }

\* match strings written without parentheses, and with them
GrammarLeaves == {TrueTest, FalseTest, SizeIs(1)}

GrammarLines ==
    { Rule(<<NOT \o T(a) \o AND \o T(b)>>, TrapAction) :
        a \in GrammarLeaves, b \in GrammarLeaves }
    \cup { Rule(<<NOT \o T(a) \o OR \o T(b)>>, TrapAction) :
             a \in GrammarLeaves, b \in GrammarLeaves }
    \cup { Rule(<<T(a) \o OR \o T(b) \o AND \o T(c)>>, TrapAction) :
             a \in GrammarLeaves, b \in GrammarLeaves,
             c \in GrammarLeaves }
    \cup { Rule(<<T(a) \o AND \o T(b) \o OR \o T(c)>>, TrapAction) :
             a \in GrammarLeaves, b \in GrammarLeaves,
             c \in GrammarLeaves }
    \cup { Rule(<<LP \o NOT \o T(a) \o RP \o AND \o T(b)>>, TrapAction) :
             a \in GrammarLeaves, b \in GrammarLeaves }
    \cup { Rule(<<LP \o T(a) \o OR \o T(b) \o RP \o AND \o T(c)>>,
                TrapAction) :
             a \in GrammarLeaves, b \in GrammarLeaves,
             c \in GrammarLeaves }
    \cup { Rule(<<NOT \o NOT \o T(a) \o AND \o T(b)>>, TrapAction) :
             a \in GrammarLeaves, b \in GrammarLeaves }
    \cup { Rule(<<T(TrueTest) \o AND>>, TrapAction),
           Rule(<<LP \o T(TrueTest)>>, TrapAction),
           Rule(<<T(TrueTest) \o RP>>, TrapAction),
           Rule(<<T(TrueTest) \o T(TrueTest)>>, TrapAction),
           Rule(<<NOT>>, TrapAction),
           Rule(<< <<>> >>, TrapAction) }

\* lines with a test on `offset', with and without a plugin that asks for
\* notifications (b.so exports instr, c.so does not)
OffsetLines ==
    { Rule(<<T(OffsetIs(n))>>, TrapAction)
         \o Rule(<<T(FalseTest)>>, PluginAction(p)) :
        n \in {0, 1, 4096, 4097}, p \in {"b", "c"} }
    \cup { Rule(<<T(OffsetIs(1))>>, PluginAction("b")),
           Rule(<<T(PluginTest("b")) \o AND \o T(OffsetIs(0))>>,
                PrintAction) }

(***************************************************************************)
(* The "many" inputs are command lines with n rules of which only the last *)
(* one can match: `-M false -A trap' n - 1 times and then the rule given.  *)
(***************************************************************************)
ManyLine(n, last) ==
    [j \in 1..(2 * n) |->
        IF j = 2 * n - 1 THEN last[1]
        ELSE IF j = 2 * n THEN last[2]
        ELSE IF j % 2 = 1 THEN Opt("M", T(FalseTest))
        ELSE Opt("A", TrapAction)]

ManyLines ==
    { ManyLine(n, last) :
        n \in {2, MAX_ACTIONS - 1, MAX_ACTIONS, MAX_ACTIONS + 1},
        last \in { Rule(<<T(MnemonicTest("ret"))>>, PrintAction),
                   Rule(<<T(PluginTest("b"))>>, PluginAction("b")) } }

ParseLines ==
    PluginLines \cup OptionLines \cup TrampolineLines \cup ArgLines
    \cup GrammarLines \cup OffsetLines \cup MemOpLines

\* what the disassembler may yield next: mnemonic and length
Shape(m, n) == [mnemonic |-> m, size |-> n]

InsnChoices(scen) ==
    CASE scen = "small" -> {Shape("ret", 1), Shape("xor", 2), Shape(".byte", 1)}
      [] scen = "long" -> {Shape("nop", 9), Shape("add", 15)}
      [] scen = "eval" -> {Shape("ret", 1), Shape("nop", 1), Shape("xor", 2)}
      [] scen = "pair" -> {Shape("ret", 1), Shape("nop", 1)}
      [] scen = "parse" -> {Shape("ret", 1), Shape("xor", 2)}
      [] scen = "many" -> {Shape("ret", 1), Shape("nop", 1)}
      [] scen = "operand" ->
            {Shape("ret", 1), Shape("xor", 2), Shape("add", 4),
             Shape("mov", 5), Shape("lea", 4), Shape("push", 2),
             Shape("prefetch", 3)}

TextBound(scen) ==
    CASE scen = "small" -> MaxInsns
      [] scen = "long" -> MaxLongInsns
      [] scen = "eval" -> MaxEvalInsns
      [] scen = "pair" -> MaxPairInsns
      [] scen = "parse" -> MaxParseInsns
      [] scen = "many" -> MaxManyInsns
      [] scen = "operand" -> MaxOperandInsns

NoResults(plugs) == [f \in DOMAIN plugs |-> 0]

\* in the long texts the plugins' match entry points accept everything
ResultChoices(scen, plugs) ==
    IF scen = "long"
    THEN {[f \in DOMAIN plugs |->
             IF "match" \in plugs[f].funcs THEN 1 ELSE 0]}
    ELSE MatchResults(plugs)

(***************************************************************************)
(* The state of main().                                                    *)
(*   scenario        the family of inputs of this run                      *)
(*   pc              the position in main: "start", "parse", "init",       *)
(*                   "tramp", "disasm", "pass2", "walk", "emit", "done",   *)
(*                   or "error" after error() ended the process            *)
(*   option_actions  the -M/-A pairs of the command line                   *)
(*   option_sync     the --sync option                                     *)
(*   actions         the rules parsed so far                               *)
(*   plugins         the plugin registry, option_notify its notify flag    *)
(*   rng             the state of rand()                                   *)
(*   text            what the disassembler yielded so far, with the values *)
(*                   the plugins returned for it                           *)
(*   address, locs, sync, failed, i, id   the locals of main               *)
(*   out             the backend stream and the plugin calls, in order     *)
(*   err             the fatal error that ended the process                *)
(*   dispatch        the last call of match(): its instruction, result and *)
(*                   the evaluations it made                               *)
(*   lookup          the last record lookup made for a call argument       *)
(*   shadow          a second run of the first loop with the same rules    *)
(***************************************************************************)
VARIABLES scenario, pc, option_actions, option_sync, actions, plugins,
          option_notify, rng, text, address, locs, sync, failed, i, id, out,
          err, dispatch, lookup, shadow, argv, optind, option_match, opened

vars == <<scenario, pc, option_actions, option_sync, actions, plugins,
          option_notify, rng, text, address, locs, sync, failed, i, id, out,
          err, dispatch, lookup, shadow, argv, optind, option_match, opened>>

NoPlugins == [f \in {} |-> Plugin(NULLSTR, {})]

NoLookup == [valid |-> FALSE, I |-> Insn(0, 0, ""), idx |-> -1,
             basename |-> NULLSTR, pass |-> FALSE, record |-> NULLREC,
             err |-> NOERR, visits |-> <<>>, binds |-> <<>>]

NewRun(plugs, rng0) ==
    [locs |-> <<>>, rng |-> rng0, sync |-> 0, failed |-> FALSE,
     plugins |-> plugs, address |-> ElfText.sh_addr]

NoShadow == [run |-> NewRun(NoPlugins, 0), text |-> <<>>]

InitWith(scen, lines, syncs) ==
    /\ scenario = scen
    /\ argv \in lines
    /\ optind = 1
    /\ option_match = <<>>
    /\ option_actions = <<>>
    /\ opened = <<>>
    /\ option_sync \in syncs
    /\ pc = "start"
    /\ actions = <<>>
    /\ plugins = NoPlugins
    /\ option_notify = FALSE
    /\ rng = RandDefault
    /\ text = <<>>
    /\ address = 0
    /\ locs = <<>>
    /\ sync = 0
    /\ failed = FALSE
    /\ i = -1
    /\ id = -1
    /\ out = <<>>
    /\ err = NOERR
    /\ dispatch = NoDispatch
    /\ lookup = NoLookup
    /\ shadow = NoShadow

Init == InitWith("small", Lines(SmallRules), {-1, 0, 1})

InitWalk == InitWith("long", Lines(LongRules), {-1})

InitEval == InitWith("eval", Lines(EvalRules), {-1})

InitPair == InitWith("pair", Lines(PairRules), {-1})

InitParse == InitWith("parse", ParseLines, {-1})

InitMany == InitWith("many", ManyLines, {-1})

InitOperand == InitWith("operand", Lines(OperandRules), {-1})

\* the option loop (e9tool.cpp:2152-2284): -A closes a rule with the match
\* strings pending, -M adds one to them
\* Faulty variant of getoptCase: -A copies the pending match strings and
\* leaves them pending
getoptCase_copy(o, st) ==
    IF o.opt = "A"
    THEN [st EXCEPT !.option_actions = Append(@, Entry(st.option_match,
                                                       o.optarg))]
    ELSE IF o.opt = "M"
    THEN [st EXCEPT !.option_match = Append(@, o.optarg)]
    ELSE [st EXCEPT !.err = "usage"]

\* the switch on one option (e9tool.cpp:2159-2283);
\* st = [option_match, option_actions, err]
getoptCase(o, st) ==
    IF o.opt = "A"
    THEN [st EXCEPT !.option_actions = Append(@, Entry(st.option_match,
                                                       o.optarg)),
                    !.option_match = <<>>]
    ELSE IF o.opt = "M"
    THEN [st EXCEPT !.option_match = Append(@, o.optarg)]
    ELSE [st EXCEPT !.err = "usage"]

\* the loop over the options lo..hi, in the order given; the range is
\* halved so that a line of MAX_ACTIONS rules needs no deep recursion
RECURSIVE getoptLoop(_, _, _, _)
getoptLoop(args, lo, hi, st) ==
    IF st.err # NOERR \/ lo > hi THEN st
    ELSE IF lo = hi THEN getoptCase(args[lo], st)
    ELSE getoptLoop(args, (lo + hi) \div 2 + 1, hi,
                    getoptLoop(args, lo, (lo + hi) \div 2, st))

\* the state after the loop returned st
OptionsRead(st) ==
    /\ optind' = Len(argv) + 1
    /\ option_match' = st.option_match
    /\ option_actions' = st.option_actions
    /\ pc' = IF st.err # NOERR THEN "error" ELSE pc
    /\ err' = IF st.err # NOERR THEN st.err ELSE err

\* the loop over the options of the command line (e9tool.cpp:2152-2284)
GetOpt ==
    /\ pc = "start"
    /\ optind <= Len(argv)
    /\ OptionsRead(getoptLoop(argv, optind, Len(argv),
                              [option_match |-> option_match,
                               option_actions |-> option_actions,
                               err |-> NOERR]))
    /\ UNCHANGED <<scenario, option_sync, actions, plugins, option_notify,
                   rng, text, address, locs, sync, failed, i, id, out,
                   dispatch, lookup, shadow, argv, opened>>

\* the checks of the command line and srand (e9tool.cpp:2290-2301)
Start ==
    /\ pc = "start"
    /\ optind > Len(argv)
    /\ IF Len(option_match) # 0
       THEN /\ pc' = "error"
            /\ err' = "extraneous match"
            /\ rng' = rng
       ELSE IF Len(option_actions) > MAX_ACTIONS
       THEN /\ pc' = "error"
            /\ err' = "too many actions"
            /\ rng' = rng
       ELSE /\ pc' = "parse"
            /\ err' = err
            /\ rng' = srand(SEED_HALF, SEED_HALF)
    /\ UNCHANGED <<scenario, option_actions, option_sync, actions, plugins,
                   option_notify, text, address, locs, sync, failed, i, id,
                   out, dispatch, lookup, shadow,
                   argv, optind, option_match, opened>>

\* the action is parsed only when the match strings were
actionOf(a, m) ==
    IF m.reg.err # NOERR THEN [action |-> NULLEXPR, reg |-> m.reg]
    ELSE parseAction(a, m)

\* the body of the loop over option_actions for one entry, from the
\* registry reg: r = [action, reg]
parseRule(entry, reg) ==
    IF Len(entry.match) = 0
    THEN [action |-> NULLEXPR,
          reg |-> [reg EXCEPT !.err = "action without match"]]
    ELSE actionOf(entry.action,
                  parseMatches(entry.match, 1,
                               [expr |-> NULLEXPR, reg |-> reg]))

\* actions.push_back(action); r = [actions, reg]
Pushed(r, e) ==
    [actions |-> IF e.reg.err # NOERR THEN r.actions
                 ELSE Append(r.actions, e.action),
     reg |-> e.reg]

\* the loop over the entries lo..hi of option_actions, in order and up to
\* the first error; the range is halved so that MAX_ACTIONS rules need no
\* deep recursion
RECURSIVE parseRules(_, _, _, _)
parseRules(entries, lo, hi, r) ==
    IF r.reg.err # NOERR \/ lo > hi THEN r
    ELSE IF lo = hi THEN Pushed(r, parseRule(entries[lo], r.reg))
    ELSE parseRules(entries, (lo + hi) \div 2 + 1, hi,
                    parseRules(entries, lo, (lo + hi) \div 2, r))

\* the state after the loop returned r
RulesParsed(r) ==
    /\ pc' = IF r.reg.err # NOERR THEN "error" ELSE pc
    /\ err' = IF r.reg.err # NOERR THEN r.reg.err ELSE err
    /\ plugins' = r.reg.plugins
    /\ option_notify' = r.reg.option_notify
    /\ opened' = r.reg.opened
    /\ actions' = r.actions

\* the loop over option_actions (e9tool.cpp:2315-2331)
ParseRule ==
    /\ pc = "parse"
    /\ Len(actions) < Len(option_actions)
    /\ RulesParsed(parseRules(option_actions, Len(actions) + 1,
                              Len(option_actions),
                              [actions |-> actions,
                               reg |-> [plugins |-> plugins,
                                        option_notify |-> option_notify,
                                        err |-> NOERR, opened |-> opened]]))
    /\ UNCHANGED <<scenario, option_actions, option_sync, rng, text, address,
                   locs, sync, failed, i, id, out, dispatch, lookup, shadow,
                   argv, optind, option_match>>

\* the backend is spawned and sent the binary (e9tool.cpp:2336-2436)
SpawnBackend ==
    /\ pc = "parse"
    /\ Len(actions) = Len(option_actions)
    /\ pc' = "init"
    /\ out' = Append(out, Msg("Binary", ""))
    /\ UNCHANGED <<scenario, option_actions, option_sync, actions, plugins,
                   option_notify, rng, text, address, locs, sync, failed, i,
                   id, err, dispatch, lookup, shadow,
                   argv, optind, option_match, opened>>

\* initPlugins(backend.out, &elf) (e9tool.cpp:2441)
InitPlugins ==
    /\ pc = "init"
    /\ pc' = "tramp"
    /\ plugins' = initPlugins(plugins).plugins
    /\ out' = out \o initPlugins(plugins).out
    /\ UNCHANGED <<scenario, option_actions, option_sync, actions,
                   option_notify, rng, text, address, locs, sync, failed, i,
                   id, err, dispatch, lookup, shadow,
                   argv, optind, option_match, opened>>

\* the trampoline definitions and the .text section (e9tool.cpp:2446-2563)
SendTrampolines ==
    /\ pc = "tramp"
    /\ pc' = "disasm"
    /\ out' = out \o Trampolines(actions)
    /\ address' = ElfText.sh_addr
    /\ locs' = <<>>
    /\ failed' = FALSE
    /\ sync' = 0
    /\ UNCHANGED <<scenario, option_actions, option_sync, actions, plugins,
                   option_notify, rng, text, i, id, err, dispatch, lookup,
                   shadow,
                   argv, optind, option_match, opened>>

\* the long texts hold at most MaxShortInsns 9-byte instructions
NextShapes(scen, txt) ==
    IF /\ scen = "long"
       /\ Cardinality({k \in 1..Len(txt) : txt[k].I.size = 9})
             >= MaxShortInsns
    THEN {Shape("add", 15)}
    ELSE InsnChoices(scen)

ThisRun == [locs |-> locs, rng |-> rng, sync |-> sync, failed |-> failed,
            plugins |-> plugins, address |-> address]

\* the plugins' match entry points are called only when match() is
WillDispatch(run, shape, notify) ==
    run.sync = 0 /\ shape.mnemonic # ".byte" /\ ~notify

\* one iteration of the first disassembly loop (e9tool.cpp:2564-2594)
Disasm ==
    /\ pc = "disasm"
    /\ Len(text) < TextBound(scenario)
    /\ \E shape \in NextShapes(scenario, text) :
       \E results \in IF WillDispatch(ThisRun, shape, option_notify)
                      THEN ResultChoices(scenario, plugins)
                      ELSE {NoResults(plugins)} :
          LET I == Insn(address, shape.size, shape.mnemonic)
              r == DisasmIter(ThisRun, I, results, actions, option_notify,
                              option_sync)
          IN  /\ text' = Append(text, [I |-> I, results |-> results])
              /\ locs' = r.run.locs
              /\ rng' = r.run.rng
              /\ sync' = r.run.sync
              /\ failed' = r.run.failed
              /\ plugins' = r.run.plugins
              /\ address' = r.run.address
              /\ out' = out \o r.out
              /\ dispatch' = IF r.dispatch.valid THEN r.dispatch ELSE dispatch
    /\ UNCHANGED <<scenario, pc, option_actions, option_sync, actions,
                   option_notify, i, id, err, lookup, shadow,
                   argv, optind, option_match, opened>>

\* whether the disassembler may stop before the end of the section
EndChoices(scen) == IF scen = "small" THEN {TRUE, FALSE} ELSE {TRUE}

\* the texts of the long inputs hold exactly MaxLongInsns instructions
MayEnd == scenario = "long" => Len(text) = MaxLongInsns

\* after the first loop (e9tool.cpp:2595-2609): complete is (code == end)
DisasmEnd ==
    /\ pc = "disasm"
    /\ MayEnd
    /\ \E complete \in EndChoices(scenario) :
          IF ~complete
          THEN /\ pc' = "error"
               /\ err' = "failed to disassemble"
               /\ i' = i
          ELSE IF failed /\ option_sync < 0
          THEN /\ pc' = "error"
               /\ err' = "desync"
               /\ i' = i
          ELSE /\ pc' = IF option_notify /\ Len(locs) > 0 THEN "pass2"
                        ELSE "walk"
               /\ err' = err
               /\ i' = IF option_notify /\ Len(locs) > 0 THEN 0
                       ELSE Len(locs) - 1
    /\ UNCHANGED <<scenario, option_actions, option_sync, actions, plugins,
                   option_notify, rng, text, address, locs, sync, failed, id,
                   out, dispatch, lookup, shadow,
                   argv, optind, option_match, opened>>

\* Faulty variant of sendPatchMessage: the metadata carries the id that
\* the site before had
sendPatchMessage_before(name, offset, addr, site_id) ==
    [Ev("Patch", NULLSTR, NULLSTR, offset, -1, -1, name, addr)
        EXCEPT !.id = site_id - 1]

\* sendPatchMessage(out, action->name, offset, metadata), the metadata
\* built by buildMetadata with the id of the site
sendPatchMessage(name, offset, addr, site_id) ==
    [Ev("Patch", NULLSTR, NULLSTR, offset, -1, -1, name, addr)
        EXCEPT !.id = site_id]

\* the instruction the disassembler yields again at an address
InsnAt(txt, addr) ==
    txt[CHOOSE k \in 1..Len(txt) : txt[k].I.address = addr].I

\* one iteration of the second pass (e9tool.cpp:2616-2636)
MatchPass ==
    /\ pc = "pass2"
    /\ i < Len(locs)
    /\ \E results \in ResultChoices(scenario, plugins) :
          LET loc == locs[i + 1]
              loc_offset == loc.offset
              I == InsnAt(text, ElfText.sh_addr + loc_offset)
              offset == ElfText.sh_offset + loc_offset
              mp == matchPlugins(plugins, offset, results)
              m == match(actions, I, offset,
                         [plugins |-> mp.plugins, ub |-> "ne"],
                         EvalState(rng))
          IN  /\ locs' = IF m.idx >= 0
                         THEN [locs EXCEPT ![i + 1] =
                                  Location(loc_offset, I.size, TRUE, m.idx)]
                         ELSE locs
              /\ plugins' = mp.plugins
              /\ rng' = m.st.rng
              /\ out' = out \o mp.out
              /\ dispatch' = [valid |-> TRUE, I |-> I, offset |-> offset,
                              idx |-> m.idx, visits |-> m.st.visits,
                              rng |-> rng]
    /\ i' = IF i + 1 < Len(locs) THEN i + 1 ELSE Len(locs) - 1
    /\ pc' = IF i + 1 < Len(locs) THEN pc ELSE "walk"
    /\ UNCHANGED <<scenario, option_actions, option_sync, actions,
                   option_notify, text, address, sync, failed, id, err,
                   lookup, shadow,
                   argv, optind, option_match, opened>>

\* one iteration of the reverse loop (e9tool.cpp:2642-2691)
PatchSite ==
    /\ pc = "walk"
    /\ i >= 0
    /\ i' = i - 1
    /\ \E ub \in {"segv", "eq", "ne"} :
          LET loc == locs[i + 1]
              addr == ElfText.sh_addr + loc.offset
              offset == loc.offset + ElfText.sh_offset
              I == InsnAt(text, addr)
              d == WalkDown(locs, i + 1, addr, <<>>)
              u == WalkUp(d.locs, i + 2, addr, d.out)
              action == actions[loc.action + 1]
              b == buildMetadata(action, I, offset,
                                 [plugins |-> plugins, ub |-> ub], rng,
                                 loc.action)
          IN  IF loc.patch = 0
              THEN UNCHANGED <<pc, locs, id, out, rng, err, lookup>>
              ELSE IF action.kind = "ACTION_PLUGIN"
              THEN /\ locs' = u.locs
                   /\ id' = id + 1
                   /\ out' = IF "patch" \in plugins[action.plugin].funcs
                             THEN out \o u.out \o
                                  << Ev("patch", action.plugin, action.context,
                                        offset, -1, -1, "", addr) >>
                             ELSE out \o u.out
                   /\ UNCHANGED <<pc, rng, err, lookup>>
              ELSE /\ locs' = u.locs
                   /\ id' = id + 1
                   /\ rng' = b.st.rng
                   /\ lookup' = IF action.user = <<>> THEN lookup
                                ELSE [valid |-> TRUE, I |-> I,
                                      idx |-> loc.action,
                                      basename |-> action.user[1],
                                      pass |-> b.pass, record |-> b.st.record,
                                      err |-> b.st.err,
                                      visits |-> b.st.visits,
                                      binds |-> b.st.binds]
                   /\ IF b.st.err # NOERR
                      THEN /\ pc' = "error"
                           /\ err' = b.st.err
                           /\ out' = out \o u.out
                      ELSE /\ pc' = pc
                           /\ err' = err
                           /\ out' = out \o u.out \o
                                     << sendPatchMessage(action.name, offset,
                                                         addr, id + 1) >>
    /\ UNCHANGED <<scenario, option_actions, option_sync, actions, plugins,
                   option_notify, text, address, sync, failed, dispatch,
                   shadow,
                   argv, optind, option_match, opened>>

\* finiPlugins(backend.out, &elf) (e9tool.cpp:2697)
FiniPlugins ==
    /\ pc = "walk"
    /\ i < 0
    /\ pc' = "emit"
    /\ out' = out \o finiPlugins(plugins)
    /\ UNCHANGED <<scenario, option_actions, option_sync, actions, plugins,
                   option_notify, rng, text, address, locs, sync, failed, i,
                   id, err, dispatch, lookup, shadow,
                   argv, optind, option_match, opened>>

\* sendEmitMessage and waitBackend (e9tool.cpp:2703-2726)
SendEmit ==
    /\ pc = "emit"
    /\ pc' = "done"
    /\ out' = Append(out, Msg("Emit", ""))
    /\ UNCHANGED <<scenario, option_actions, option_sync, actions, plugins,
                   option_notify, rng, text, address, locs, sync, failed, i,
                   id, err, dispatch, lookup, shadow,
                   argv, optind, option_match, opened>>

(***************************************************************************)
(* A second run of the program with the same command line on another       *)
(* text: its first loop, from the state a run has when it enters the loop. *)
(***************************************************************************)
ShadowStart ==
    NewRun([f \in DOMAIN plugins |-> [plugins[f] EXCEPT !.result = 0]],
           srand(SEED_HALF, SEED_HALF))

ShadowDisasm ==
    /\ scenario = "pair"
    /\ pc = "done"
    /\ ~option_notify
    /\ Len(shadow.text) < MaxPairInsns
    /\ \E shape \in InsnChoices(scenario) :
       \E results \in ResultChoices(scenario, plugins) :
          LET run == IF shadow.text = <<>> THEN ShadowStart ELSE shadow.run
              I == Insn(run.address, shape.size, shape.mnemonic)
              r == DisasmIter(run, I, results, actions, option_notify,
                              option_sync)
          IN  shadow' = [run |-> r.run,
                         text |-> Append(shadow.text,
                                         [I |-> I, results |-> results])]
    /\ UNCHANGED <<scenario, pc, option_actions, option_sync, actions,
                   plugins, option_notify, rng, text, address, locs, sync,
                   failed, i, id, out, err, dispatch, lookup,
                   argv, optind, option_match, opened>>

Next ==
    \/ GetOpt
    \/ Start
    \/ ParseRule
    \/ SpawnBackend
    \/ InitPlugins
    \/ SendTrampolines
    \/ Disasm
    \/ DisasmEnd
    \/ MatchPass
    \/ PatchSite
    \/ FiniPlugins
    \/ SendEmit

NextPair == Next \/ ShadowDisasm

Spec == Init /\ [][Next]_vars

SpecWalk == InitWalk /\ [][Next]_vars

SpecEval == InitEval /\ [][Next]_vars

SpecPair == InitPair /\ [][NextPair]_vars

SpecParse == InitParse /\ [][Next]_vars

SpecMany == InitMany /\ [][Next]_vars

SpecOperand == InitOperand /\ [][Next]_vars

(***************************************************************************)
(* Properties.  Helpers first: the truth of a rule as the mathematical     *)
(* value of its expression (no evaluation order, no side effect), and the  *)
(* node of a rule at a position.                                           *)
(***************************************************************************)
RECURSIVE Leaves(_)
Leaves(expr) ==
    IF expr.op = "MATCH_OP_TEST" THEN {expr.test}
    ELSE IF expr.op = "MATCH_OP_NOT" THEN Leaves(expr.arg1)
    ELSE Leaves(expr.arg1) \cup Leaves(expr.arg2)

UsesRandom(acts) ==
    \E k \in 1..Len(acts) :
       \E t \in Leaves(acts[k].match) : t.match = "MATCH_RANDOM"

RECURSIVE Holds(_, _, _)
Holds(expr, I, offset) ==
    CASE expr.op = "MATCH_OP_NOT" -> ~Holds(expr.arg1, I, offset)
      [] expr.op = "MATCH_OP_AND" ->
            Holds(expr.arg1, I, offset) /\ Holds(expr.arg2, I, offset)
      [] expr.op = "MATCH_OP_OR" ->
            Holds(expr.arg1, I, offset) \/ Holds(expr.arg2, I, offset)
      [] expr.op = "MATCH_OP_TEST" ->
            TestEval(expr.test, I, offset, NULLSTR, FALSE,
                     [plugins |-> plugins, ub |-> "ne"], EvalState(0)).pass

RECURSIVE SubExpr(_, _)
SubExpr(expr, path) ==
    IF path = <<>> THEN expr
    ELSE IF path[1] = 1 THEN SubExpr(expr.arg1, Tail(path))
    ELSE SubExpr(expr.arg2, Tail(path))

NodeAt(path) == SubExpr(actions[path[1] + 1].match, Tail(path))

\* C1: match() returns the lowest index of a rule whose expression is true
\* for the instruction, and -1 when no rule's expression is true: the rules
\* before the returned one were evaluated, in order, and failed, the
\* returned one passed, and no rule after it was looked at.
C1_FirstMatch ==
    dispatch.valid =>
        LET roots == SelectSeq(dispatch.visits, LAMBDA v : Len(v.node) = 1)
            n == Len(actions)
            last == IF dispatch.idx = -1 THEN n ELSE dispatch.idx
        IN  /\ dispatch.idx \in -1..(n - 1)
            /\ Len(roots) = IF dispatch.idx = -1 THEN n ELSE dispatch.idx + 1
            /\ \A k \in 1..last :
                  roots[k] = [node |-> <<k - 1>>, pass |-> FALSE]
            /\ dispatch.idx >= 0 =>
                  roots[dispatch.idx + 1] =
                      [node |-> <<dispatch.idx>>, pass |-> TRUE]
            /\ ~UsesRandom(actions) =>
                  /\ \A k \in 1..last :
                        ~Holds(actions[k].match, dispatch.I, dispatch.offset)
                  /\ dispatch.idx >= 0 =>
                        Holds(actions[dispatch.idx + 1].match, dispatch.I,
                              dispatch.offset)

\* a dispatch in which the second of three rules won although the third is
\* true as well
C1_Witness ==
    /\ dispatch.valid
    /\ Len(actions) = 3
    /\ dispatch.idx = 1
    /\ ~UsesRandom(actions)
    /\ Holds(actions[3].match, dispatch.I, dispatch.offset)

\* the evaluations of one call of match() or of one record lookup keep to
\* short-circuit order: an And or Or node that returned had its left
\* argument evaluated first; its right argument was evaluated, after the
\* left one, exactly when the left one did not decide the result; and the
\* node's result is that of the deciding argument
ShortCircuit(vs) ==
    \A k \in 1..Len(vs) :
        LET p == vs[k].node
            e == NodeAt(p)
            At(q) == {j \in 1..Len(vs) : vs[j].node = q}
            L == At(Append(p, 1))
            R == At(Append(p, 2))
            decides(b) == IF e.op = "MATCH_OP_AND" THEN ~b ELSE b
        IN  /\ At(p) = {k}
            /\ e.op \in {"MATCH_OP_AND", "MATCH_OP_OR"} =>
                  /\ \E j \in L : j < k
                  /\ \A j \in L :
                        IF decides(vs[j].pass)
                        THEN R = {} /\ vs[k].pass = vs[j].pass
                        ELSE \E r \in R : /\ j < r
                                          /\ r < k
                                          /\ vs[k].pass = vs[r].pass

\* the conjunction, from left to right, of the parsed match strings
RECURSIVE ConjOf(_, _)
ConjOf(strs, k) ==
    LET reg == [plugins |-> plugins, option_notify |-> option_notify,
                err |-> NOERR, opened |-> opened]
    IN  IF k = 1 THEN parseMatch(strs[1], reg).expr
        ELSE AndExpr(ConjOf(strs, k - 1), parseMatch(strs[k], reg).expr)

\* C6: And and Or are evaluated with short-circuit, left argument first (the
\* right argument of an And is not evaluated when the left one is false,
\* that of an Or not when the left one is true), and the -M strings of one
\* rule are conjoined from left to right.
C6_ShortCircuit ==
    /\ dispatch.valid => ShortCircuit(dispatch.visits)
    /\ lookup.valid => ShortCircuit(lookup.visits)
    /\ \A k \in 1..Len(actions) :
          actions[k].match =
              ConjOf(option_actions[k].match, Len(option_actions[k].match))

\* a dispatch that left the right argument of a false And alone, in a rule
\* given as two -M strings
C6_Witness ==
    /\ dispatch.valid
    /\ \E k \in 1..Len(dispatch.visits) :
          LET v == dispatch.visits[k]
          IN  /\ NodeAt(v.node).op = "MATCH_OP_AND"
              /\ ~v.pass
              /\ Len(option_actions[v.node[1] + 1].match) = 2
              /\ Holds(NodeAt(v.node).arg2, dispatch.I, dispatch.offset)
              /\ \A j \in 1..Len(dispatch.visits) :
                    dispatch.visits[j].node # Append(v.node, 2)

\* the tests of a rule that are not below a Not
RECURSIVE PositiveTests(_)
PositiveTests(expr) ==
    IF expr.op = "MATCH_OP_TEST" THEN {expr.test}
    ELSE IF expr.op = "MATCH_OP_NOT" THEN {}
    ELSE PositiveTests(expr.arg1) \cup PositiveTests(expr.arg2)

RECURSIVE IsConj(_)
IsConj(expr) ==
    IF expr.op = "MATCH_OP_TEST" THEN TRUE
    ELSE IF expr.op = "MATCH_OP_AND"
    THEN IsConj(expr.arg1) /\ IsConj(expr.arg2)
    ELSE FALSE

\* the record a CSV test finds for an instruction
RecordOf(test, I, offset) ==
    IndexGet(test.values,
             makeMatchValue(test.match, test.idx, test.field, I, offset, 0,
                            0).x)

\* C7: when a rule that equates an attribute to the values of a CSV file
\* matches an instruction, the lookup for that file binds exactly one
\* record, the one the rule's tests against the file find for the
\* instruction, and ends with the error "ambiguous" when two of them find
\* different records.  (Stated for rules that are conjunctions of tests and
\* draw no random number, where every test of a matching rule takes part.)
C7_OneRecord ==
    lookup.valid =>
        LET rule == actions[lookup.idx + 1].match
            offset == (lookup.I.address - ElfText.sh_addr) + ElfText.sh_offset
            own == {t \in PositiveTests(rule) :
                       /\ t.basename = lookup.basename
                       /\ t.cmp = "MATCH_CMP_EQ"
                       /\ t.match \in ValueKinds}
        IN  (/\ IsConj(rule)
             /\ ~UsesRandom(actions)
             /\ own # {}
             /\ Holds(rule, lookup.I, offset)) =>
                IF \E t1, t2 \in own : RecordOf(t1, lookup.I, offset)
                                          # RecordOf(t2, lookup.I, offset)
                THEN lookup.err = "ambiguous"
                ELSE /\ lookup.err = NOERR
                     /\ lookup.pass
                     /\ lookup.record # NULLREC
                     /\ \A t \in own :
                           lookup.record = RecordOf(t, lookup.I, offset)

(***************************************************************************)
(* The reverse walk.                                                       *)
(***************************************************************************)
AddrOf(loc) == ElfText.sh_addr + loc.offset

\* the Instruction messages sent so far for an address
SentFor(a) ==
    {k \in 1..Len(out) : out[k].kind = "Instruction" /\ out[k].addr = a}

\* the patch sites the reverse loop has finished (locs[k] is locs[k - 1] of
\* the program, and i is the index the loop looks at next)
DoneSites ==
    {k \in 1..Len(locs) :
        /\ locs[k].patch = 1
        /\ pc \in {"walk", "emit", "done", "error"}
        /\ k - 1 > i}

\* C2: each Location is serialized to an Instruction message at most once:
\* its emitted flag is set exactly when its message has been sent (the
\* stream only grows, so the flag is never cleared), and no second message
\* follows.
C2_EmittedOnce ==
    \A k \in 1..Len(locs) :
        /\ Cardinality(SentFor(AddrOf(locs[k]))) <= 1
        /\ (locs[k].emitted = 1) <=> (SentFor(AddrOf(locs[k])) # {})

\* the end of a walk in which one Location lies in the window of two patch
\* sites
C2_Witness ==
    /\ pc = "done"
    /\ \E k \in 1..Len(locs) :
          /\ locs[k].emitted = 1
          /\ \E a, b \in DoneSites :
                /\ a # b
                /\ Abs(AddrOf(locs[a]) - AddrOf(locs[k])) <= 144
                /\ Abs(AddrOf(locs[b]) - AddrOf(locs[k])) <= 144

\* C3: once the walk has processed a patch site at addr, every Location
\* within INT8_MAX + 2 + 15 = 144 bytes of addr has emitted = 1, every
\* Instruction message sent for this site is for a Location within 144
\* bytes, and the Locations sent for the site are those of the window not
\* sent before: the walk stopped at the first Location outside it.
C3_Window ==
    \A s \in DoneSites :
        LET addr == AddrOf(locs[s])
            mine == {k \in 1..Len(out) :
                        out[k].kind = "Instruction" /\ out[k].site = addr}
        IN  /\ \A k \in 1..Len(locs) :
                  Abs(AddrOf(locs[k]) - addr) <= 127 + 2 + 15 =>
                      locs[k].emitted = 1
            /\ \A k \in mine : Abs(out[k].addr - addr) <= 127 + 2 + 15
            /\ \A k \in 1..Len(locs) :
                  Abs(AddrOf(locs[k]) - addr) > 127 + 2 + 15 =>
                      \A m \in mine : out[m].addr # AddrOf(locs[k])

\* the end of a walk with a patch site that has one Location exactly 144
\* bytes away, which was sent, and one farther away, which was not
C3_Witness ==
    /\ pc = "done"
    /\ \E s \in DoneSites :
          /\ \E k \in 1..Len(locs) :
                /\ Abs(AddrOf(locs[k]) - AddrOf(locs[s])) = 144
                /\ locs[k].emitted = 1
          /\ \E k \in 1..Len(locs) :
                /\ Abs(AddrOf(locs[k]) - AddrOf(locs[s])) > 144
                /\ locs[k].emitted = 0

\* C4 as claimed: every Location whose Instruction message is sent on
\* account of a patch site L lies within 32 + 15 = 47 bytes of L.
C4_Window47 ==
    \A k \in 1..Len(out) :
        out[k].kind = "Instruction" =>
            Abs(out[k].addr - out[k].site) <= 32 + 15

\* C4 amended: every Location whose Instruction message is sent on account
\* of a patch site L lies within INT8_MAX + 2 + 15 = 144 bytes of L, and a
\* Location with emitted = 1 lies within 144 bytes of some patch site.
C4_Window144 ==
    /\ \A k \in 1..Len(out) :
          out[k].kind = "Instruction" =>
              Abs(out[k].addr - out[k].site) <= 127 + 2 + 15
    /\ \A k \in 1..Len(locs) :
          locs[k].emitted = 1 =>
              \E s \in 1..Len(locs) :
                  /\ locs[s].patch = 1
                  /\ Abs(AddrOf(locs[k]) - AddrOf(locs[s])) <= 127 + 2 + 15

\* a message sent for a Location more than 47 bytes from its patch site,
\* in a text that also holds a Location out of the site's reach
C4_Witness ==
    /\ \E k \in 1..Len(out) :
          /\ out[k].kind = "Instruction"
          /\ Abs(out[k].addr - out[k].site) > 47
    /\ \E k \in 1..Len(locs) : \E s \in DoneSites :
          Abs(AddrOf(locs[k]) - AddrOf(locs[s])) > 144

(***************************************************************************)
(* Two runs with the same rules.                                           *)
(***************************************************************************)
\* what a run disassembled at an offset, with the plugins' results for it
EntryAt(txt, offset) ==
    txt[CHOOSE k \in 1..Len(txt) :
            txt[k].I.address = ElfText.sh_addr + offset]

\* the two runs dispatched the same index for every instruction they both
\* met, at the same place and with the same plugin results
SameDispatch ==
    \A k \in 1..Len(locs) : \A j \in 1..Len(shadow.run.locs) :
        (/\ locs[k].offset = shadow.run.locs[j].offset
         /\ EntryAt(text, locs[k].offset)
               = EntryAt(shadow.text, locs[k].offset)) =>
            /\ locs[k].patch = shadow.run.locs[j].patch
            /\ locs[k].action = shadow.run.locs[j].action

\* C5 as claimed: the index dispatched for an instruction depends only on
\* the rules, the instruction and the plugin results for it, not on the
\* instructions processed before, rules that use `random' included.
C5_Determinism == SameDispatch

\* C5 amended: the same, for rule lists in which no test uses `random'.
C5_DeterminismNoRandom == ~UsesRandom(actions) => SameDispatch

\* two runs that differ in their first instruction, agree on the second
\* and patch it, under rules without `random'
C5_Witness ==
    /\ ~UsesRandom(actions)
    /\ Len(text) = 2
    /\ Len(shadow.text) = 2
    /\ text[1] # shadow.text[1]
    /\ text[2] = shadow.text[2]
    /\ Len(locs) = 2
    /\ Len(shadow.run.locs) = 2
    /\ locs[2].patch = 1
    /\ shadow.run.locs[2].patch = 1
    /\ locs[1].patch # shadow.run.locs[1].patch

(***************************************************************************)
(* The plugin life cycle and the order of the stream.                      *)
(***************************************************************************)
Calls(kind, f) ==
    {k \in 1..Len(out) : out[k].kind = kind /\ out[k].plugin = f}

Of(kinds) == {k \in 1..Len(out) : out[k].kind \in kinds}

\* the value of rand()'s state after n draws from the state s
RECURSIVE Drawn(_, _)
Drawn(s, n) == IF n = 0 THEN s ELSE rand(Drawn(s, n - 1))

EntryPoints == {"init", "instr", "match", "patch", "fini"}

\* C11: openPlugin accepts a shared object iff at least one of the five
\* entry points (init, instr, match, patch, fini) is present and raises a
\* fatal error iff none is; a plugin exporting only match loads.
C11_AcceptIffAny ==
    \A k \in 1..Len(opened) :
        opened[k].resolved =>
            (opened[k].ok <=> Dlsym[opened[k].pathname] \cap EntryPoints # {})

\* the two directions that the code does have: a loaded shared object has
\* an entry point, and one with init, instr, patch or fini is loaded
C11_AcceptedHasEntry ==
    \A k \in 1..Len(opened) :
        opened[k].resolved =>
            /\ opened[k].ok => Dlsym[opened[k].pathname] \cap EntryPoints # {}
            /\ Dlsym[opened[k].pathname] \ {"match"} # {} => opened[k].ok

\* a shared object with the match entry point only was opened for a test
C11_MatchOnlyOpened ==
    \E k \in 1..Len(opened) :
        opened[k].resolved /\ Dlsym[opened[k].pathname] = {"match"}

\* the calls of openPlugin that returned the plugin of path f
OpensOf(f) == {k \in 1..Len(opened) : opened[k].ok /\ opened[k].pathname = f}

\* the registry after any sequence of openPlugin calls
C12_Registry ==
    /\ DOMAIN plugins = {opened[k].pathname : k \in {j \in 1..Len(opened) :
                                                       opened[j].ok}}
    /\ \A f \in DOMAIN plugins :
          /\ plugins[f].filename = f
          /\ plugins[f].funcs = Dlsym[f]
          /\ \A k \in OpensOf(f) :
                opened[k].resolved <=> (\A j \in OpensOf(f) : k <= j)
          /\ Cardinality(Calls("init", f)) <= 1
          /\ Cardinality(Calls("fini", f)) <= 1
          /\ \A kind \in {"instr", "match"} :
                \A k, j \in Calls(kind, f) :
                    out[k].offset = out[j].offset => k = j
    /\ option_notify <=> \E f \in DOMAIN plugins : "instr" \in Dlsym[f]

\* C12: the registry holds exactly one Plugin record per distinct canonical
\* path; opening a path that is in the registry returns its record without
\* resolving the entry points again, so init, instr, match and fini are
\* called once per plugin per event even when several rules name the
\* plugin; notify mode is on iff a loaded plugin exports instr, and it is
\* never switched off.
C12_OneRecordPerPath ==
    /\ []C12_Registry
    /\ [][option_notify => option_notify']_vars

\* the end of a run in which one plugin was opened three times under three
\* names and another, which exports instr, twice
C12_Witness ==
    /\ pc = "done"
    /\ \E f \in DOMAIN plugins :
          /\ Cardinality({opened[k].basename : k \in OpensOf(f)}) = 3
          /\ Calls("init", f) # {} /\ Calls("match", f) # {}
          /\ Calls("fini", f) # {}
    /\ \E f \in DOMAIN plugins :
          /\ Cardinality(OpensOf(f)) >= 2
          /\ Calls("instr", f) # {}

(***************************************************************************)
(* The pairing of -M with -A                                               *)
(***************************************************************************)
\* the positions of the -A options among the options read so far
ActionOpts == {p \in 1..(optind - 1) : argv[p].opt = "A"}

\* the position of the last -A before position p (0 when there is none)
PrevAction(p) ==
    IF \E j \in ActionOpts : j < p
    THEN CHOOSE j \in ActionOpts :
            j < p /\ \A n \in ActionOpts : n < p => n <= j
    ELSE 0

\* the -M strings between the last -A before position p and position p
PendingAt(p) ==
    [j \in 1..(p - 1 - PrevAction(p)) |-> argv[PrevAction(p) + j].optarg]

\* C13: each -A forms exactly one rule from all the match strings
\* accumulated since the previous -A, in the order given, and leaves the
\* pending list empty; the rules are created in the order of the -A
\* options; matches left pending after the last -A are a fatal error, and
\* so is an -A with no pending match.
C13_Pairing ==
    /\ Len(option_actions) = Cardinality(ActionOpts)
    /\ \A p \in ActionOpts :
          option_actions[Cardinality({j \in ActionOpts : j <= p})]
              = Entry(PendingAt(p), argv[p].optarg)
    /\ option_match = PendingAt(optind)
    /\ pc # "start" => optind = Len(argv) + 1
    /\ (pc # "start" /\ option_match # <<>>)
          => pc = "error" /\ err = "extraneous match"
    /\ Len(actions) <= Len(option_actions)
    /\ \A k \in 1..Len(actions) :
          /\ option_actions[k].match # <<>>
          /\ actions[k].kind = option_actions[k].action.kind
          /\ actions[k].name = ActionName(option_actions[k].action)
    /\ pc \notin {"start", "parse", "error"}
          => Len(actions) = Len(option_actions)
    /\ (pc = "error" /\ err = "action without match")
          => option_actions[Len(actions) + 1].match = <<>>

\* the end of a run with three rules, of one, three and one match strings
C13_Witness ==
    /\ pc = "done"
    /\ Len(actions) = 3
    /\ Len(option_actions[1].match) = 1
    /\ Len(option_actions[2].match) = 3
    /\ Len(option_actions[3].match) = 1

\* an -A without a pending -M, given after a complete rule, ended the run
C13_WitnessLone ==
    /\ pc = "error"
    /\ err = "action without match"
    /\ Len(actions) = 1

(***************************************************************************)
(* The Location vector                                                     *)
(***************************************************************************)
\* what the action field holds for the index -1 that match() returns when
\* no rule matches
NoMatchAction == (-1) % MAX_ACTIONS

\* the Locations of the instruction the last dispatch was made for
DispatchedLocs ==
    {n \in 1..Len(locs) :
        dispatch.valid /\ ElfText.sh_addr + locs[n].offset = dispatch.I.address}

\* patch = 1 implies an action index below the number of rules that is the
\* index match() returned
PatchIndex ==
    /\ \A n \in 1..Len(locs) :
          locs[n].patch = 1 => locs[n].action < Len(actions)
    /\ \A n \in DispatchedLocs :
          /\ locs[n].patch = 1 <=> dispatch.idx >= 0
          /\ locs[n].patch = 1 => locs[n].action = dispatch.idx

\* C14 as stated: for every accepted number of rules, a Location whose
\* action index is the no-match value has patch = 0, and one with
\* patch = 1 has an action index below the number of rules that equals the
\* index returned by the dispatch (the 10-bit field neither truncates nor
\* collides).
C14_SentinelUnpatched ==
    /\ \A n \in 1..Len(locs) :
          locs[n].action = NoMatchAction => locs[n].patch = 0
    /\ PatchIndex

\* C14: for every accepted number of rules (at most MAX_ACTIONS), a
\* Location with patch = 1 has an action index below the number of rules
\* that equals the index returned by the dispatch, and one with patch = 0
\* holds the no-match value; with fewer than MAX_ACTIONS rules only
\* Locations with patch = 0 hold the no-match value.
C14_PatchBitDecides ==
    /\ Len(actions) <= MAX_ACTIONS
    /\ PatchIndex
    /\ \A n \in 1..Len(locs) :
          /\ locs[n].patch = 0 => locs[n].action = NoMatchAction
          /\ (Len(actions) < MAX_ACTIONS /\ locs[n].action = NoMatchAction)
                => locs[n].patch = 0

\* MAX_ACTIONS rules of which the last one matched an instruction and no
\* rule another one
C14_Witness ==
    /\ Len(actions) = MAX_ACTIONS
    /\ \E n \in 1..Len(locs) :
          locs[n].patch = 1 /\ locs[n].action = MAX_ACTIONS - 1
    /\ \E n \in 1..Len(locs) : locs[n].patch = 0

(***************************************************************************)
(* The trampoline definitions                                              *)
(***************************************************************************)
TrampolineKinds ==
    {"ExitTrampoline", "CallTrampoline", "ELFFile", "PassthruTrampoline",
     "PrintTrampoline", "TrapTrampoline"}

\* the number of messages of a kind and name sent so far
Sent(kind, name) ==
    Cardinality({k \in 1..Len(out) : out[k].kind = kind /\ out[k].name = name})

RulesOf(kind) == {n \in 1..Len(actions) : actions[n].kind = kind}

\* C15: exactly one exit trampoline is sent per distinct exit status, one
\* call trampoline per distinct call action name, one ELFFile message per
\* distinct called file name, and one passthru, print or trap trampoline
\* iff at least one rule has that action; all of them are sent before the
\* first Instruction or Patch message.
C15_Trampolines ==
    /\ \A k \in Of(TrampolineKinds) :
          /\ Sent(out[k].kind, out[k].name) = 1
          /\ \A j \in Of({"Instruction", "Patch"}) : k < j
          /\ out[k].kind = "ExitTrampoline" =>
                \E n \in RulesOf("ACTION_EXIT") :
                    ToString(actions[n].status) = out[k].name
          /\ out[k].kind = "CallTrampoline" =>
                \E n \in RulesOf("ACTION_CALL") :
                    actions[n].name = out[k].name
          /\ out[k].kind = "ELFFile" =>
                \E n \in RulesOf("ACTION_CALL") :
                    actions[n].filename = out[k].name
    /\ pc \in {"disasm", "pass2", "walk", "emit", "done"} =>
          /\ \A n \in RulesOf("ACTION_EXIT") :
                Sent("ExitTrampoline", ToString(actions[n].status)) = 1
          /\ \A n \in RulesOf("ACTION_CALL") :
                /\ Sent("CallTrampoline", actions[n].name) = 1
                /\ Sent("ELFFile", actions[n].filename) = 1
          /\ Sent("PassthruTrampoline", "passthru")
                = IF RulesOf("ACTION_PASSTHRU") # {} THEN 1 ELSE 0
          /\ Sent("PrintTrampoline", "print")
                = IF RulesOf("ACTION_PRINT") # {} THEN 1 ELSE 0
          /\ Sent("TrapTrampoline", "trap")
                = IF RulesOf("ACTION_TRAP") # {} THEN 1 ELSE 0
    /\ Of({"Instruction", "Patch"}) # {}
          => pc \in {"disasm", "pass2", "walk", "emit", "done", "error"}

\* the end of a run with two rules of exit status 7, for which one exit
\* trampoline and two patches by the first rule were sent
C15_Witness ==
    /\ pc = "done"
    /\ Cardinality({n \in RulesOf("ACTION_EXIT") : actions[n].status = 7}) = 2
    /\ Sent("ExitTrampoline", "7") = 1
    /\ Sent("Patch", "exit_7") = 2

\* the end of a run with two call rules of one name and a third of another
\* name in the same file
C15_WitnessCall ==
    /\ pc = "done"
    /\ \E n, k \in RulesOf("ACTION_CALL") :
          n # k /\ actions[n].name = actions[k].name
    /\ \E n, k \in RulesOf("ACTION_CALL") :
          /\ actions[n].name # actions[k].name
          /\ actions[n].filename = actions[k].filename
    /\ Of({"Patch"}) # {}

(***************************************************************************)
(* The arguments of a call action                                          *)
(***************************************************************************)
OperandTokens ==
    {"TOKEN_OP", "TOKEN_SRC", "TOKEN_DST", "TOKEN_IMM", "TOKEN_REG",
     "TOKEN_MEM"}

MemopTokens == {"TOKEN_MEM8", "TOKEN_MEM16", "TOKEN_MEM32", "TOKEN_MEM64"}

IsSymbol(a) == a.token = "TOKEN_STRING" /\ ~a.indexed

\* an argument that is written as the grammar allows: a field follows an
\* operand only
WellFormed(a) == a.field # "FIELD_NONE" => a.token \in OperandTokens

\* by-pointer is used only for a symbol, where it is required, and for the
\* base and index fields of an operand
PointerAsStated(a) ==
    /\ IsSymbol(a) => a.ptr
    /\ a.ptr => \/ IsSymbol(a)
                \/ /\ a.token \in OperandTokens
                   /\ a.field \in {"FIELD_BASE", "FIELD_INDEX"}

\* by-pointer is used only for a symbol, where it is required, for an
\* operand (whole, or its base or index field), for a memory-operand
\* literal and for a register other than rip
PointerAsCoded(a) ==
    /\ IsSymbol(a) => a.ptr
    /\ a.ptr => \/ IsSymbol(a)
                \/ /\ a.token \in OperandTokens
                   /\ a.field \in {"FIELD_NONE", "FIELD_BASE", "FIELD_INDEX"}
                \/ a.token \in MemopTokens
                \/ a.token = "TOKEN_REGISTER" /\ a.value # "REGISTER_RIP"

\* the call rules of the command line whose arguments are well formed
CallRules ==
    {k \in 1..Len(option_actions) :
        /\ option_actions[k].action.kind = "ACTION_CALL"
        /\ \A j \in 1..Len(option_actions[k].action.args) :
              WellFormed(option_actions[k].action.args[j])}

ArgsOf(k) ==
    {option_actions[k].action.args[j] :
        j \in 1..Len(option_actions[k].action.args)}

\* rule k was parsed / parsing ended at rule k with an error about `&'
Accepted(k) == k <= Len(actions)

RefusedPointer(k) ==
    /\ pc = "error"
    /\ k = Len(actions) + 1
    /\ err \in {"cannot pass field by pointer",
                "cannot pass argument by pointer",
                "symbol must be passed-by-pointer"}

\* C16 as stated: in the argument list of a call action, by-pointer (`&')
\* is accepted only for symbol arguments, where it is required, and for
\* the base and index fields of operand arguments; every other by-pointer
\* argument is a fatal parse error.
C16_PointerOnlySymbolBaseIndex ==
    \A k \in CallRules :
        /\ Accepted(k) => \A a \in ArgsOf(k) : PointerAsStated(a)
        /\ RefusedPointer(k) => \E a \in ArgsOf(k) : ~PointerAsStated(a)

\* C16: by-pointer is accepted for symbol arguments, where it is required,
\* for operand arguments without a field or with the base or index field,
\* for memory-operand literals and for registers other than rip; every
\* other by-pointer argument is a fatal parse error.
C16_PointerAsCoded ==
    \A k \in CallRules :
        /\ Accepted(k) => \A a \in ArgsOf(k) : PointerAsCoded(a)
        /\ RefusedPointer(k) => \E a \in ArgsOf(k) : ~PointerAsCoded(a)

\* a call rule with a whole operand passed by pointer was parsed and used
C16_Witness ==
    /\ pc = "done"
    /\ Of({"Patch"}) # {}
    /\ \E k \in CallRules : \E a \in ArgsOf(k) :
          a.ptr /\ a.token = "TOKEN_OP" /\ a.field = "FIELD_NONE"

\* parsing ended at an integer passed by pointer
C16_WitnessRefused ==
    \E k \in CallRules :
        /\ RefusedPointer(k)
        /\ \E a \in ArgsOf(k) : a.ptr /\ a.token = "TOKEN_INTEGER"

(***************************************************************************)
(* The match grammar                                                       *)
(***************************************************************************)
\* the tree of a single test, as parseMatch builds it
LeafOf(t) ==
    parseMatch(T(t), [plugins |-> plugins, option_notify |-> option_notify,
                      err |-> NOERR, opened |-> opened]).expr

\* the parsed rules whose one match string is the token string s
ParsedFrom(s) ==
    {k \in 1..Len(actions) : option_actions[k].match = <<s>>}

\* C17: `not' binds tightest and disjunction has the lowest precedence:
\* `not a and b' is (not a) and b, `not a or b' is (not a) or b, and
\* `a or b and c' is a or (b and c), unless parentheses override.
C17_Precedence ==
    \A a, b, c \in GrammarLeaves :
        /\ \A k \in ParsedFrom(NOT \o T(a) \o AND \o T(b)) :
              actions[k].match = AndExpr(NotExpr(LeafOf(a)), LeafOf(b))
        /\ \A k \in ParsedFrom(NOT \o T(a) \o OR \o T(b)) :
              actions[k].match = OrExpr(NotExpr(LeafOf(a)), LeafOf(b))
        /\ \A k \in ParsedFrom(T(a) \o OR \o T(b) \o AND \o T(c)) :
              actions[k].match
                  = OrExpr(LeafOf(a), AndExpr(LeafOf(b), LeafOf(c)))
        /\ \A k \in ParsedFrom(LP \o T(a) \o OR \o T(b) \o RP \o AND \o T(c)) :
              actions[k].match
                  = AndExpr(OrExpr(LeafOf(a), LeafOf(b)), LeafOf(c))

\* what the parser builds: the operand of `not' extends to the end of the
\* string or to the closing parenthesis; `and' binds tighter than `or',
\* and parentheses override
C17_NotExtends ==
    \A a, b, c \in GrammarLeaves :
        /\ \A k \in ParsedFrom(NOT \o T(a) \o AND \o T(b)) :
              actions[k].match = NotExpr(AndExpr(LeafOf(a), LeafOf(b)))
        /\ \A k \in ParsedFrom(NOT \o T(a) \o OR \o T(b)) :
              actions[k].match = NotExpr(OrExpr(LeafOf(a), LeafOf(b)))
        /\ \A k \in ParsedFrom(T(a) \o OR \o T(b) \o AND \o T(c)) :
              actions[k].match
                  = OrExpr(LeafOf(a), AndExpr(LeafOf(b), LeafOf(c)))
        /\ \A k \in ParsedFrom(T(a) \o AND \o T(b) \o OR \o T(c)) :
              actions[k].match
                  = OrExpr(AndExpr(LeafOf(a), LeafOf(b)), LeafOf(c))
        /\ \A k \in ParsedFrom(LP \o NOT \o T(a) \o RP \o AND \o T(b)) :
              actions[k].match = AndExpr(NotExpr(LeafOf(a)), LeafOf(b))
        /\ \A k \in ParsedFrom(LP \o T(a) \o OR \o T(b) \o RP \o AND \o T(c)) :
              actions[k].match
                  = AndExpr(OrExpr(LeafOf(a), LeafOf(b)), LeafOf(c))

\* the rule `not true and false', which matches no instruction as
\* (not true) and false, was dispatched for an instruction
C17_NotTrueAndFalse ==
    /\ ParsedFrom(NOT \o T(TrueTest) \o AND \o T(FalseTest)) = {1}
    /\ dispatch.valid
    /\ dispatch.idx = 0

(***************************************************************************)
(* Plugin entry points that a rule needs                                   *)
(***************************************************************************)
\* the plugin tests of the parsed rule k name plugins that export match
HasMatch(k) ==
    \A t \in Leaves(actions[k].match) :
        t.match = "MATCH_PLUGIN" => "match" \in Dlsym[t.plugin]

\* the plugin action of the parsed rule k names a plugin that exports patch
HasPatch(k) ==
    actions[k].kind = "ACTION_PLUGIN" => "patch" \in Dlsym[actions[k].plugin]

\* C18: a rule that needs a plugin entry point the plugin does not export
\* is rejected with a fatal error while the rules are parsed, be it a
\* plugin test whose plugin lacks match or a plugin action whose plugin
\* lacks patch, so that no such rule is among the parsed rules.
C18_MissingEntryRejected ==
    \A k \in 1..Len(actions) : HasMatch(k) /\ HasPatch(k)

\* the half that the code has: no parsed rule has a plugin test whose
\* plugin lacks match
C18_MissingMatchRejected ==
    /\ \A k \in 1..Len(actions) : HasMatch(k)
    /\ err = "plugin lacks match" =>
          pc = "error" /\ text = <<>> /\ Of({"Instruction", "Patch"}) = {}

\* a run ended at a plugin test whose plugin lacks match
C18_MatchRefused == err = "plugin lacks match"

\* a run ended normally with a plugin action whose plugin lacks patch
C18_PatchAccepted ==
    /\ pc = "done"
    /\ \E k \in 1..Len(actions) : ~HasPatch(k)

(***************************************************************************)
(* The patches of a completed run                                          *)
(***************************************************************************)
\* the calls of patch entry points and the Patch messages made while the
\* site of Location n was processed
PatchCalls(n) ==
    {k \in Of({"patch"}) : out[k].site = ElfText.sh_addr + locs[n].offset}

PatchMsgs(n) ==
    {k \in Of({"Patch"}) : out[k].site = ElfText.sh_addr + locs[n].offset}

ActionAt(n) == actions[locs[n].action + 1]

\* one Patch message with the action's name for a site whose action is not
\* Plugin, and neither call nor message for a Location with patch = 0
BuiltinPatched(n) ==
    /\ locs[n].patch = 0 => PatchCalls(n) = {} /\ PatchMsgs(n) = {}
    /\ (locs[n].patch = 1 /\ ActionAt(n).kind # "ACTION_PLUGIN") =>
          /\ PatchCalls(n) = {}
          /\ Cardinality(PatchMsgs(n)) = 1
          /\ \A k \in PatchMsgs(n) : out[k].name = ActionAt(n).name

\* C19: for every Location with patch = 1 whose action is Plugin the
\* plugin's patch entry point is called exactly once for the site and no
\* Patch message is sent for it; for every Location with patch = 1 whose
\* action is not Plugin exactly one Patch message with the action's name
\* is sent; a Location with patch = 0 gets neither.
C19_PatchPerSite ==
    pc = "done" =>
        \A n \in 1..Len(locs) :
            /\ BuiltinPatched(n)
            /\ (locs[n].patch = 1 /\ ActionAt(n).kind = "ACTION_PLUGIN") =>
                  /\ PatchMsgs(n) = {}
                  /\ Cardinality(PatchCalls(n)) = 1
                  /\ \A k \in PatchCalls(n) :
                        out[k].plugin = ActionAt(n).plugin

\* what the walk does: the entry point is called once when the plugin has
\* one, and not at all when it has none
C19_PatchPerSiteIfExported ==
    pc = "done" =>
        \A n \in 1..Len(locs) :
            /\ BuiltinPatched(n)
            /\ (locs[n].patch = 1 /\ ActionAt(n).kind = "ACTION_PLUGIN") =>
                  /\ PatchMsgs(n) = {}
                  /\ Cardinality(PatchCalls(n))
                        = IF "patch" \in Dlsym[ActionAt(n).plugin] THEN 1
                          ELSE 0
                  /\ \A k \in PatchCalls(n) :
                        out[k].plugin = ActionAt(n).plugin

\* the end of a run with a site patched by a plugin, one patched by a
\* builtin action and (C19_Unpatched) one that no rule matched
C19_Patched ==
    /\ pc = "done"
    /\ \E n \in 1..Len(locs) : PatchCalls(n) # {}
    /\ \E n \in 1..Len(locs) : PatchMsgs(n) # {}

C19_Unpatched ==
    /\ pc = "done"
    /\ \E n \in 1..Len(locs) : locs[n].patch = 0
    /\ \E n \in 1..Len(locs) : PatchCalls(n) # {}

(***************************************************************************)
(* The offset handed to the dispatch                                       *)
(***************************************************************************)
\* the offset of an instruction into the text section
TextOffset(I) == I.address - ElfText.sh_addr

\* the rules have neither a plugin test nor a random test
PlainRules ==
    \A k \in 1..Len(actions) :
        \A t \in Leaves(actions[k].match) :
            t.match \notin {"MATCH_PLUGIN", "MATCH_RANDOM"}

\* the index the single pass dispatches for the instruction I
SinglePassIndex(I) ==
    match(actions, I, TextOffset(I), [plugins |-> plugins, ub |-> "ne"],
          EvalState(dispatch.rng)).idx

\* C20: the offset of an instruction, which is also the offset handed to
\* the plugins' match entry points, is the instruction's offset into the
\* text section (address minus text base), in the single pass as in the
\* second pass of notify mode; hence rules without plugin tests dispatch
\* the same action index for every instruction in both modes.
C20_SameOffsetBothModes ==
    /\ dispatch.valid => dispatch.offset = TextOffset(dispatch.I)
    /\ \A k \in Of({"match"}) :
          \E n \in 1..Len(text) : out[k].offset = TextOffset(text[n].I)
    /\ (dispatch.valid /\ PlainRules)
          => dispatch.idx = SinglePassIndex(dispatch.I)

\* what the two passes hand over: the offset into the text section in the
\* single pass, the offset into the file in the second pass
C20_OffsetPerMode ==
    /\ dispatch.valid =>
          dispatch.offset = IF option_notify
                            THEN ElfText.sh_offset + TextOffset(dispatch.I)
                            ELSE TextOffset(dispatch.I)
    /\ \A k \in Of({"match"}) :
          \E n \in 1..Len(text) :
              out[k].offset = IF option_notify
                              THEN ElfText.sh_offset + TextOffset(text[n].I)
                              ELSE TextOffset(text[n].I)
    /\ (dispatch.valid /\ PlainRules /\ ~option_notify)
          => dispatch.idx = SinglePassIndex(dispatch.I)

\* the second pass dispatched no rule for the first instruction of the
\* text although the first rule is `offset = 0'
C20_SecondPassMiss ==
    /\ option_notify
    /\ dispatch.valid
    /\ TextOffset(dispatch.I) = 0
    /\ PlainRules
    /\ Leaves(actions[1].match) = {LeafOf(OffsetIs(0)).test}
    /\ dispatch.idx = -1


(***************************************************************************)
(* Memory-operand literals with a %rip base.                               *)
(***************************************************************************)
RipRelative(a) ==
    /\ ArgumentKind(a) = "ARGUMENT_MEMOP"
    /\ a.memop.base = "REGISTER_RIP"
    /\ a.memop.index # "REGISTER_NONE" \/ a.memop.scale64 # 1

\* C21: a call rule with a memory-operand literal whose base is %rip and
\* which has an index register or a scale other than 1 is never parsed
\* into an action: parsing ends at it with a fatal error.
C21_RipIndexScaleRejected ==
    \A k \in 1..Len(option_actions) :
        (\E a \in ArgsOf(k) : RipRelative(a)) => ~Accepted(k)


(***************************************************************************)
(* The comparisons of a test.                                              *)
(***************************************************************************)
\* the visits of the last dispatch that are tests with the comparison cmp
\* on an attribute of the instruction itself
TestVisits(cmp) ==
    {k \in 1..Len(dispatch.visits) :
        LET e == NodeAt(dispatch.visits[k].node)
        IN  /\ e.op = "MATCH_OP_TEST"
            /\ e.test.cmp = cmp
            /\ e.test.match \in ValueKinds
                                \ {"MATCH_RANDOM", "MATCH_PLUGIN"}}

\* what the extractor gave for the test visited
Extracted(k) ==
    LET t == NodeAt(dispatch.visits[k].node).test
    IN  makeMatchValue(t.match, t.idx, t.field, dispatch.I, dispatch.offset,
                       0, 0).x

ValuesAt(k) == NodeAt(dispatch.visits[k].node).test.values

\* C22: a `!=' test on a defined extracted value x passes iff either the
\* value set has exactly one element and x is not in it, or the value set
\* does not have exactly one element (an empty set built from a CSV file
\* included).
C22_NeqPass ==
    dispatch.valid =>
        \A k \in TestVisits("MATCH_CMP_NEQ") :
            Extracted(k).type # MATCH_TYPE_UNDEFINED =>
                (dispatch.visits[k].pass
                    <=> \/ /\ IndexSize(ValuesAt(k)) = 1
                           /\ ~IndexHas(ValuesAt(k), Extracted(k))
                        \/ IndexSize(ValuesAt(k)) # 1)

\* the same for the tests whose value set is not empty
C22_NeqPassNonEmpty ==
    dispatch.valid =>
        \A k \in TestVisits("MATCH_CMP_NEQ") :
            /\ Extracted(k).type # MATCH_TYPE_UNDEFINED
            /\ IndexSize(ValuesAt(k)) # 0
            => (dispatch.visits[k].pass
                    <=> \/ ~IndexHas(ValuesAt(k), Extracted(k))
                        \/ IndexSize(ValuesAt(k)) # 1)

\* a `!=' test on an empty value set failed
C22_EmptyFails ==
    /\ dispatch.valid
    /\ \E k \in TestVisits("MATCH_CMP_NEQ") :
          IndexSize(ValuesAt(k)) = 0 /\ ~dispatch.visits[k].pass


\* the visits of the last dispatch that are tests on an attribute for
\* which the extractor is called
ValueVisits ==
    UNION {TestVisits(cmp) : cmp \in Comparisons}

\* the tests defined(...) visited, whatever their attribute
DefinedVisits ==
    {k \in 1..Len(dispatch.visits) :
        LET e == NodeAt(dispatch.visits[k].node)
        IN  e.op = "MATCH_OP_TEST" /\ e.test.cmp = "MATCH_CMP_DEFINED"}

C23_WitnessDefined ==
    /\ dispatch.valid
    /\ \E k \in DefinedVisits \cap ValueVisits :
          Extracted(k).type = MATCH_TYPE_UNDEFINED


(***************************************************************************)
(* Operand indexing against the operand count.                             *)
(***************************************************************************)
\* what the extractor yields for K[n].field, n = -1 for no index, for the
\* instruction dispatched last
Yields(K, n, field) ==
    makeMatchValue(K, n, field, dispatch.I, dispatch.offset, 0, 0).x

\* C30: for every instruction, every operand attribute K of op, src, dst,
\* imm, reg, mem and every index n in 0..7, the extractor yields a value
\* other than `undefined' for K[n] with field none, type, access or size
\* iff n < K.size, the operand count it yields for K without an index.
C30_IndexBelowSize ==
    dispatch.valid =>
        \A K \in OperandKinds : \A n \in 0..7 :
        \A f \in {"MATCH_FIELD_NONE", "MATCH_FIELD_TYPE",
                  "MATCH_FIELD_ACCESS", "MATCH_FIELD_SIZE"} :
            /\ Yields(K, -1, "MATCH_FIELD_SIZE").type = MATCH_TYPE_INTEGER
            /\ Yields(K, n, f).type # MATCH_TYPE_UNDEFINED
                  <=> n < Yields(K, -1, "MATCH_FIELD_SIZE").i

\* defined(src[0]) passed for an instruction whose only operand is an
\* immediate, which has no access bits of its own
C30_Witness ==
    /\ dispatch.valid
    /\ dispatch.I.mnemonic = "push"
    /\ Yields("MATCH_SRC", -1, "MATCH_FIELD_SIZE").i = 1
    /\ \E k \in DefinedVisits :
          /\ NodeAt(dispatch.visits[k].node).test.match = "MATCH_SRC"
          /\ NodeAt(dispatch.visits[k].node).test.idx = 0
          /\ dispatch.visits[k].pass

\* defined(dst[1]) failed for an instruction with two operands of which
\* one is written
C30_WitnessFiltered ==
    /\ dispatch.valid
    /\ Yields("MATCH_OP", -1, "MATCH_FIELD_SIZE").i = 2
    /\ Yields("MATCH_DST", -1, "MATCH_FIELD_SIZE").i = 1
    /\ \E k \in DefinedVisits :
          /\ NodeAt(dispatch.visits[k].node).test.match = "MATCH_DST"
          /\ NodeAt(dispatch.visits[k].node).test.idx = 1
          /\ ~dispatch.visits[k].pass


(***************************************************************************)
(* Desync handling.                                                        *)
(***************************************************************************)
IsByte(p) == text[p].I.mnemonic = ".byte"

\* item p of the text left a Location or a call of a plugin's instr or
\* match entry point
HasLocation(p) ==
    \E j \in 1..Len(locs) : locs[j].offset = TextOffset(text[p].I)

Notified(p) ==
    \E j \in 1..Len(out) :
        /\ out[j].kind \in {"instr", "match"}
        /\ out[j].offset \in {TextOffset(text[p].I),
                               ElfText.sh_offset + TextOffset(text[p].I)}

\* item p is a `.byte' or one of the option_sync items after one
SkippedAfterAny(p) ==
    \E q \in 1..p : IsByte(q) /\ p - q <= UnsignedSync(option_sync)

\* item p is one of the option_sync items after a `.byte' that was not
\* itself among the items after an earlier one
RECURSIVE InSkip(_)
InSkip(p) ==
    \E q \in 1..(p - 1) :
        IsByte(q) /\ ~InSkip(q) /\ p - q <= UnsignedSync(option_sync)

SkippedAfterMet(p) == InSkip(p) \/ IsByte(p)

\* the end of a run in which a `.byte' was met
DesyncEnd ==
    /\ failed /\ option_sync < 0 => pc \in {"disasm", "error"}
    /\ pc = "error" /\ err = "desync" =>
          /\ failed /\ option_sync < 0
          /\ \A j \in 1..Len(out) : out[j].kind \notin {"Instruction", "Patch"}
    /\ failed /\ option_sync >= 0 => err # "desync"

\* C24 as stated: every `.byte' item and the option_sync items decoded
\* after it leave no Location, no plugin notification and no match, and
\* the items after them are processed; without --sync the run ends with a
\* fatal error before any Instruction or Patch message, with it the run
\* goes on.
C24_EveryByteSkips ==
    /\ \A p \in 1..Len(text) :
          IF SkippedAfterAny(p) THEN ~HasLocation(p) /\ ~Notified(p)
          ELSE HasLocation(p)
    /\ DesyncEnd

\* C24: a `.byte' item met while no item is being skipped, and the
\* option_sync items decoded after it, whatever they are, leave no
\* Location, no plugin notification and no match, and the items after
\* them are processed; without --sync the run ends with a fatal error
\* before any Instruction or Patch message, with it the run goes on.
C24_MetByteSkips ==
    /\ \A p \in 1..Len(text) :
          IF SkippedAfterMet(p) THEN ~HasLocation(p) /\ ~Notified(p)
          ELSE HasLocation(p)
    /\ DesyncEnd

\* with --sync 1 a run ended whose first item was a `.byte': the second
\* item was skipped and the third was processed
C24_Witness ==
    /\ pc = "done"
    /\ option_sync = 1
    /\ Len(text) = 3
    /\ IsByte(1)
    /\ ~HasLocation(2) /\ HasLocation(3)

\* without --sync a run ended with the fatal error
C24_WitnessFatal == pc = "error" /\ err = "desync" /\ Len(text) = 3


(***************************************************************************)
(* The order of the patch sites.                                           *)
(***************************************************************************)
\* the Instruction and Patch messages and the plugin patch calls sent so
\* far, in the order sent; each carries the address of its patch site
SiteEvents ==
    SelectSeq(out, LAMBDA e : e.kind \in {"Instruction", "Patch", "patch"})

\* the Locations with the patch bit at an address above addr
SitesAbove(addr) ==
    {j \in 1..Len(locs) :
        locs[j].patch = 1 /\ ElfText.sh_addr + locs[j].offset > addr}

\* C25: patch sites are processed in reverse index order: the Patch
\* messages and the plugin patch calls of a run are sent in strictly
\* decreasing instruction address, every message of a site (its
\* Instruction messages, then its Patch) is sent before the first message
\* of the next lower site, and the id a site's metadata is built with is
\* the number of patch sites processed before it: 0, 1, 2, ...
C25_ReverseOrder ==
    /\ \A j \in 1..Len(SiteEvents) : \A k \in (j + 1)..Len(SiteEvents) :
          /\ SiteEvents[j].site >= SiteEvents[k].site
          /\ SiteEvents[j].kind \in {"Patch", "patch"} =>
                SiteEvents[j].site > SiteEvents[k].site
    /\ \A j \in 1..Len(SiteEvents) :
          SiteEvents[j].kind = "Patch" =>
             SiteEvents[j].id = Cardinality(SitesAbove(SiteEvents[j].site))
    /\ pc \in {"walk", "emit", "done"} =>
          id + 1 = Cardinality({j \in 1..Len(locs) :
                                  locs[j].patch = 1 /\ j > i + 1})

\* a run ended with three patch sites, of which one a plugin's
C25_Witness ==
    /\ pc = "done"
    /\ Cardinality({j \in 1..Len(SiteEvents) :
                      SiteEvents[j].kind = "Patch"}) = 2
    /\ \E j \in 1..Len(SiteEvents) :
          /\ SiteEvents[j].kind = "patch"
          /\ \E k \in (j + 1)..Len(SiteEvents) :
                SiteEvents[k].kind = "Patch" /\ SiteEvents[k].id = 2


(***************************************************************************)
(* Instruction messages against Patch messages.                            *)
(***************************************************************************)
\* the Locations with the patch bit within the window of the address a
NearSites(a) ==
    {j \in 1..Len(locs) :
        /\ locs[j].patch = 1
        /\ Abs(AddrOf(locs[j]) - a)
              <= INT8_MAX + SHORT_JMP_SIZE + MAX_INSN_SIZE}

\* C26: every Patch message and every plugin patch call for a Location is
\* preceded in the stream to the backend by the Instruction message for
\* that Location, and a Location that lies within the window of no patch
\* site never gets an Instruction message.
C26_InstructionFirst ==
    /\ \A k \in 1..Len(out) :
          out[k].kind \in {"Patch", "patch"} =>
             \E j \in 1..(k - 1) :
                out[j].kind = "Instruction" /\ out[j].addr = out[k].site
    /\ \A k \in 1..Len(locs) :
          NearSites(AddrOf(locs[k])) = {} =>
             locs[k].emitted = 0 /\ SentFor(AddrOf(locs[k])) = {}

\* a run ended with a Patch message whose Instruction message had been
\* sent for a higher site, and a Location in no window
C26_Witness ==
    /\ pc = "done"
    /\ \E k \in 1..Len(out) :
          /\ out[k].kind = "Patch"
          /\ \E j \in SentFor(out[k].site) : out[j].site > out[k].site
    /\ \E k \in 1..Len(locs) : NearSites(AddrOf(locs[k])) = {}


(***************************************************************************)
(* Call trampolines against the call actions that use them.                *)
(***************************************************************************)
\* the call trampoline messages sent under a name
Declared(name) ==
    {k \in 1..Len(out) :
        out[k].kind = "CallTrampoline" /\ out[k].name = name}

\* the Locations whose Patch message was sent and whose action is a call
PatchedCalls ==
    {n \in 1..Len(locs) :
        /\ locs[n].patch = 1
        /\ ActionAt(n).kind = "ACTION_CALL"
        /\ PatchMsgs(n) # {}}

\* C27: the call trampoline declared under the name of a call action was
\* declared with that action's own argument list, clean flag and call
\* kind: a Patch message that names a call trampoline is for an action
\* with the arguments the trampoline was declared with.
C27_OwnTrampoline ==
    \A n \in PatchedCalls :
        /\ Declared(ActionAt(n).name) # {}
        /\ \A k \in Declared(ActionAt(n).name) :
              /\ out[k].args = ActionAt(n).args
              /\ out[k].clean = ActionAt(n).clean
              /\ out[k].call = ActionAt(n).call

\* the same for the clean flag and the call kind alone, which are part of
\* the name
C27_OwnFlags ==
    \A n \in PatchedCalls :
        /\ Declared(ActionAt(n).name) # {}
        /\ \A k \in Declared(ActionAt(n).name) :
              /\ out[k].clean = ActionAt(n).clean
              /\ out[k].call = ActionAt(n).call

\* a Patch message was sent for a call action with two arguments whose
\* trampoline was declared with one
C27_Mismatch ==
    \E n \in PatchedCalls :
        \E k \in Declared(ActionAt(n).name) :
            Len(out[k].args) = 1 /\ Len(ActionAt(n).args) = 2


(***************************************************************************)
(* The context a plugin's entry points are called with.                    *)
(***************************************************************************)
\* the calls of the entry points fn made so far to plugins that have init
ContextCalls(fn) ==
    {k \in 1..Len(out) :
        /\ out[k].kind \in fn
        /\ "init" \in plugins[out[k].plugin].funcs}

\* C28: the patch entry point of a plugin is called with the context value
\* that the same plugin's init returned, the value stored on the plugin
\* record and passed to its instr, match and fini calls.
C28_PatchContext ==
    \A k \in ContextCalls({"patch", "instr", "match", "fini"}) :
        out[k].context = plugins[out[k].plugin].context

\* the same for the instr, match and fini entry points alone
C28_OtherContext ==
    \A k \in ContextCalls({"instr", "match", "fini"}) :
        out[k].context = plugins[out[k].plugin].context

\* the patch entry point of a plugin whose init returned a context was
\* called with a null pointer
C28_NullContext ==
    \E k \in ContextCalls({"patch"}) :
        /\ out[k].context = NULLSTR
        /\ plugins[out[k].plugin].context # NULLSTR

(***************************************************************************)
(* Tests that do not belong to the file a lookup binds.                    *)
(***************************************************************************)
\* the tests of the looked-up rule with the comparison = on a value
BindingTests(rule) ==
    {t \in PositiveTests(rule) :
        t.cmp = "MATCH_CMP_EQ" /\ t.match \in ValueKinds}

\* the record and error that the tests of the bound file alone leave, from
\* the records they found in the order they found them
RECURSIVE OwnBinding(_, _, _)
OwnBinding(binds, basename, record) ==
    IF binds = << >> THEN [record |-> record, err |-> NOERR]
    ELSE IF Head(binds).csv # basename
    THEN OwnBinding(Tail(binds), basename, record)
    ELSE IF record # NULLREC /\ Head(binds).rec # record
    THEN [record |-> record, err |-> "ambiguous"]
    ELSE OwnBinding(Tail(binds), basename, Head(binds).rec)

\* C29: during an evaluation that binds the records of a basename, a passing
\* = test whose values were not read from a CSV file (its basename is unset)
\* or were read from a file of another basename leaves the bound record
\* unchanged and raises no error; nothing is bound below a Not.  The record
\* and the error of a lookup are those its tests of the bound file leave.
C29_ForeignTestLeavesRecord ==
    lookup.valid =>
        LET own == OwnBinding(lookup.binds, lookup.basename, NULLREC)
        IN  /\ lookup.err = own.err
            /\ lookup.err = NOERR => lookup.record = own.record
            /\ (\A t \in BindingTests(actions[lookup.idx + 1].match) :
                    t.basename # lookup.basename) =>
                        lookup.record = NULLREC /\ lookup.err = NOERR

\* the same for the tests read from a file of another basename and for the
\* tests below a Not, in rules all of whose = tests were read from a file
C29_OtherFileLeavesRecord ==
    lookup.valid =>
        LET rule == actions[lookup.idx + 1].match
        IN  (\A t \in BindingTests(rule) :
                t.basename \notin {NULLSTR, lookup.basename}) =>
                    /\ lookup.record = NULLREC
                    /\ lookup.err = NOERR
                    /\ lookup.binds = << >>

\* the record and the error of a lookup are those its tests of the bound
\* file leave, in rules all of whose = tests were read from a file
C29_FileTestsLeaveRecord ==
    lookup.valid =>
        LET own == OwnBinding(lookup.binds, lookup.basename, NULLREC)
        IN  (\A t \in BindingTests(actions[lookup.idx + 1].match) :
                t.basename # NULLSTR) =>
                    /\ lookup.err = own.err
                    /\ lookup.err = NOERR => lookup.record = own.record

\* a lookup ended in a crash, or in the error "ambiguous" although its
\* tests of the bound file found one record, through a passing = test on
\* written values
C29_UnsetBasenameBinds ==
    /\ lookup.valid
    /\ \E k \in 1..Len(lookup.binds) : lookup.binds[k].csv = NULLSTR
    /\ lookup.err = "ambiguous"
    /\ OwnBinding(lookup.binds, lookup.basename, NULLREC).err = NOERR

\* a lookup ended in a crash in the comparison of an unset basename
C29_UnsetBasenameCrash ==
    lookup.valid /\ lookup.err = "SIGSEGV"

\* a lookup went through a passing = test of another file, and one through
\* a passing = test of the bound file below a Not
C29_OtherFileVisited ==
    /\ lookup.valid
    /\ lookup.binds = << >>
    /\ LET rule == actions[lookup.idx + 1].match
           offset == (lookup.I.address - ElfText.sh_addr)
                         + ElfText.sh_offset
       IN  /\ BindingTests(rule) # {}
           /\ \A t \in BindingTests(rule) :
                 /\ t.basename \notin {NULLSTR, lookup.basename}
                 /\ IndexHas(t.values,
                             makeMatchValue(t.match, t.idx, t.field,
                                            lookup.I, offset, 0, 0).x)

=============================================================================
